---- MODULE Spec2Model ----
(***************************************************************************)
(* Storage abstraction and synchronisation layer of the "yousei notebook"  *)
(* ledger: the remote table service (Google Apps Script web app), the      *)
(* GASStorage client that talks to it, the BaseStorage helpers (withRetry, *)
(* withTimeout, generateKey, validateData) and the GDriveStorage backend.  *)
(*                                                                         *)
(* JavaScript strings are sequences of one-character strings, so that      *)
(* startsWith, join and replace are computed character by character.       *)
(* A JavaScript value is a record [t, s]: t is its typeof-like tag         *)
(* ("string", "object", "null", "undefined") and s its text: the           *)
(* characters of a string, or the JSON text of a non-string value.         *)
(***************************************************************************)
EXTENDS Integers, Sequences, FiniteSets, TLC

VARIABLES
    sheets,      \* spreadsheet: sheet name -> rows (row 1 is the header row)
    clock,       \* server wall clock (new Date() on the server)
    handlers,    \* server executions in progress, one per slot
    insOrder,    \* history: per sheet, the keys in order of their live insertion
    arrived,     \* number of requests the service has accepted so far
    gas,         \* the GASStorage instance: initialized, webAppUrl, storeId
    call,        \* the GASStorage call in progress and its makeRequest
    hist,        \* history: the last two completed GASStorage calls, latest last
    savedKeys,   \* history: the keys of the save calls that returned true
    budget,      \* calls and transport faults the environment may still make
    drive,       \* the GDriveStorage instance: initialized, accessToken
    files,       \* the files of the cloud folder, in the order files.list gives
    local,       \* localStorage: key -> string
    dlast,       \* history: the last completed GDriveStorage call
    dcalls,      \* GDriveStorage calls the environment may still make
    retry,       \* one call of BaseStorage.withRetry
    tmo,         \* one call of BaseStorage.withTimeout
    sync,        \* one pass of GASStorage.syncWithLocalStorage
    conf,        \* the configuration manager of the page and its call in progress
    stored,      \* the entry of localStorage under the manager's storage key
    timers,      \* the interval timers of the page that are active
    date,        \* the clock of the page
    clast,       \* history: the last completed call of the configuration manager
    passes       \* sync passes in flight at once, and their setItem requests

serverVars == <<sheets, clock, handlers, insOrder, arrived>>
clientVars == <<gas, call, hist, savedKeys, budget>>
driveVars == <<drive, files, local, dlast, dcalls>>
pageVars == <<sync, conf, stored, timers, date, clast>>

vars == <<sheets, clock, handlers, insOrder, arrived, gas, call, hist, savedKeys, budget,
          drive, files, local, dlast, dcalls, retry, tmo,
          sync, conf, stored, timers, date, clast, passes>>

\* What the steps of one component leave alone.
nonGasVars == <<driveVars, retry, tmo, pageVars, passes>>
nonDriveVars == <<serverVars, clientVars, retry, tmo, pageVars, passes>>
nonRetryVars == <<serverVars, clientVars, driveVars, tmo, pageVars, passes>>
nonTimeoutVars == <<serverVars, clientVars, driveVars, retry, pageVars, passes>>
nonPageVars == <<serverVars, clientVars, driveVars, retry, tmo, passes>>

----------------------------------------------------------------------------
(* Bounds of the model *)

MaxClock == 2
MaxHandlers == 2
MaxRequests == 3
MaxCalls == 5
MaxFaults == 1
MaxRetries == 4
MaxTime == 4
MaxTimeout == 3
MaxDriveCalls == 3
MaxRequestCalls == 2
MaxLoadCalls == 3
MaxListCalls == 6
MaxSyncCalls == 1
MaxSyncFaults == 2
MaxSyncRemovals == 1
MaxSyncConfCalls == 3
MaxConfCalls == 4
MaxRangeRequests == 5

----------------------------------------------------------------------------
(* Strings and JavaScript values *)

Str(chars) == [t |-> "string", s |-> chars]
Obj(json) == [t |-> "object", s |-> json]
Null == [t |-> "null", s |-> <<>>]
Undefined == [t |-> "undefined", s |-> <<>>]

\* Math.pow(2, n)
RECURSIVE Pow2(_)
Pow2(n) == IF n = 0 THEN 1 ELSE 2 * Pow2(n - 1)

StartsWith(s, p) == Len(p) <= Len(s) /\ SubSeq(s, 1, Len(p)) = p

\* JSON.stringify of a value: the text of the JSON document.
JSONstringify(v) ==
    IF v.t = "string" THEN <<"\"">> \o v.s \o <<"\"">>
    ELSE IF v.t = "null" THEN <<"n", "u", "l", "l">>
    ELSE v.s

\* JSON.parse of a JSON text.
JSONparse(text) ==
    IF Len(text) >= 2 /\ Head(text) = "\"" /\ text[Len(text)] = "\""
    THEN Str(SubSeq(text, 2, Len(text) - 1))
    ELSE IF text = <<"n", "u", "l", "l">> THEN Null
    ELSE Obj(text)

----------------------------------------------------------------------------
(* Domains of the inputs *)

StoreA == <<"S">>
DefaultStore == <<"d", "e", "f", "a", "u", "l", "t">>
NoStore == <<>>

KeyA == <<"a">>
KeyAB == <<"a", "b">>
KeySA == <<"S", ".", "a">>
KeySS == <<"S", ".", "S">>
NoKey == <<>>

\* The prefix of the keys of the ledger.
YouseiPrefix == <<"y", "o", "u", "s", "e", "i", ":">>

ValX == Str(<<"x">>)
ValY == Str(<<"y">>)
ValObj == Obj(<<"{", "}">>)

----------------------------------------------------------------------------
(* RemoteTableService: the spreadsheet *)

\* Cells of one row: key, value, timestamp, lastModified.  Times are clock
\* readings; 0 stands for a cell holding no time (the header's two labels and
\* the cells of a blank row are never read as times by the handlers).
Row(k, v, ts, lm) == [key |-> k, value |-> v, timestamp |-> ts, lastModified |-> lm]

HeaderRow == Row(<<"k", "e", "y">>, Str(<<"v", "a", "l", "u", "e">>), 0, 0)
BlankRow == Row(<<>>, Str(<<>>), 0, 0)

SheetNameOfMutShared(storeId) == DefaultStore

\* storeId || 'default'
SheetNameOf(storeId) == IF storeId = NoStore THEN DefaultStore ELSE storeId

\* getOrCreateSheet: the spreadsheet after the call (the sheet is inserted with
\* its header row when it does not exist yet).
getOrCreateSheet(ss, name) ==
    IF name \in DOMAIN ss THEN ss
    ELSE [n \in DOMAIN ss \cup {name} |-> IF n \in DOMAIN ss THEN ss[n] ELSE <<HeaderRow>>]

\* The linear scan of the handlers: the 1-indexed row of the first data row
\* (header skipped) whose key cell is `key`, or -1.
FindRow(data, key) ==
    LET hits == {i \in 2..Len(data) : data[i].key = key}
    IN IF hits = {} THEN -1 ELSE CHOOSE i \in hits : \A j \in hits : i <= j

SetRowMutAppends(rows, rowIndex, rowData) == Append(rows, rowData)

\* sheet.getRange(rowIndex, 1, 1, 4).setValues([rowData]): rows between the
\* last row and rowIndex, if any, are blank.
SetRow(rows, rowIndex, rowData) ==
    [i \in 1..(IF rowIndex > Len(rows) THEN rowIndex ELSE Len(rows)) |->
        IF i = rowIndex THEN rowData
        ELSE IF i <= Len(rows) THEN rows[i] ELSE BlankRow]

\* sheet.deleteRow(rowIndex), for a row of the sheet.
DeleteRow(rows, rowIndex) ==
    [i \in 1..(Len(rows) - 1) |-> IF i < rowIndex THEN rows[i] ELSE rows[i + 1]]

\* The records of a sheet's data rows, as handleGetAllItems pushes them.
RECURSIVE ItemsFrom(_, _, _)
ItemsFrom(data, i, prefix) ==
    IF i > Len(data) THEN <<>>
    ELSE IF prefix = <<>> \/ StartsWith(data[i].key, prefix)
         THEN <<data[i]>> \o ItemsFrom(data, i + 1, prefix)
         ELSE ItemsFrom(data, i + 1, prefix)

----------------------------------------------------------------------------
(* RemoteTableService: requests, envelopes and handlers *)

Params(action, key, value, storeId, timestamp, prefix) ==
    [action |-> action, key |-> key, value |-> value, storeId |-> storeId,
     timestamp |-> timestamp, prefix |-> prefix, startDate |-> <<>>, endDate |-> <<>>,
     targetDate |-> <<>>]

\* The parameters of a getPreviousYearData request.
TargetParams(storeId, targetDate) ==
    [Params("getPreviousYearData", NoKey, Undefined, storeId, 0, <<>>) EXCEPT
        !.targetDate = targetDate]

\* The parameters of a getDateRange request.
RangeParams(storeId, startDate, endDate) ==
    [Params("getDateRange", NoKey, Undefined, storeId, 0, <<>>) EXCEPT
        !.startDate = startDate, !.endDate = endDate]

NoParams == Params("", NoKey, Undefined, NoStore, 0, <<>>)

Envelope(status, data, items, error) ==
    [status |-> status, data |-> data, items |-> items, error |-> error]

\* The texts of the error envelopes.
TextKeyRequired == <<"K", "e", "y", " ", "i", "s", " ", "r", "e", "q", "u", "i", "r", "e", "d">>
TextValueRequired == <<"V", "a", "l", "u", "e", " ", "i", "s", " ", "r", "e", "q", "u", "i", "r", "e", "d">>
TextUnknownAction == <<"U", "n", "k", "n", "o", "w", "n", " ", "a", "c", "t", "i", "o", "n", ":", " ">>
TextGetFailed == <<"F", "a", "i", "l", "e", "d", " ", "t", "o", " ", "g", "e", "t", " ", "i", "t", "e", "m", ":", " ">>
TextSaveFailed == <<"F", "a", "i", "l", "e", "d", " ", "t", "o", " ", "s", "a", "v", "e", " ", "i", "t", "e", "m", ":", " ">>
TextRemoveFailed == <<"F", "a", "i", "l", "e", "d", " ", "t", "o", " ", "r", "e", "m", "o", "v", "e", " ", "i", "t", "e", "m", ":", " ">>
TextGetAllFailed == <<"F", "a", "i", "l", "e", "d", " ", "t", "o", " ", "g", "e", "t", " ", "a", "l", "l", " ", "i", "t", "e", "m", "s", ":", " ">>
TextRangeFailed == <<"F", "a", "i", "l", "e", "d", " ", "t", "o", " ", "g", "e", "t", " ", "d", "a", "t", "e", " ", "r", "a", "n", "g", "e", ":", " ">>
TextPrevYearFailed == <<"F", "a", "i", "l", "e", "d", " ", "t", "o", " ", "g", "e", "t", " ", "p", "r", "e", "v", "i", "o", "u", "s", " ", "y", "e", "a", "r", " ", "d", "a", "t", "a", ":", " ">>
TextBackupFailed == <<"F", "a", "i", "l", "e", "d", " ", "t", "o", " ", "c", "r", "e", "a", "t", "e", " ", "b", "a", "c", "k", "u", "p", ":", " ">>
TextStatusFailed == <<"F", "a", "i", "l", "e", "d", " ", "t", "o", " ", "g", "e", "t", " ", "s", "y", "n", "c", " ", "s", "t", "a", "t", "u", "s", ":", " ">>
TextInvalidJson == <<"I", "n", "v", "a", "l", "i", "d", " ", "J", "S", "O", "N", " ", "i", "n", " ", "P", "O", "S", "T", " ", "d", "a", "t", "a", ":", " ">>
TextServerError == <<"S", "e", "r", "v", "e", "r", " ", "e", "r", "r", "o", "r", ":", " ">>
TextElsewhere == <<"N", "o", "t", " ", "F", "o", "u", "n", "d">>

NoResp == Envelope("none", Undefined, <<>>, <<>>)

\* createResponse(status, data): the envelope carries data on success, the
\* error text on error and nothing but a message on not_found.
createResponse(status, data, items, text) ==
    IF status = "success" THEN Envelope("success", data, items, <<>>)
    ELSE IF status = "error" THEN Envelope("error", Undefined, <<>>, text)
    ELSE Envelope("not_found", Undefined, <<>>, <<>>)

\* An execution of the script: its state, the parameters of its request (and
\* the body of a POST that gave none), the row index of its read, its envelope.
IdleHandler ==
    [st |-> "idle", p |-> NoParams, rowIndex |-> 0, resp |-> NoResp, body |-> <<>>]

Done(p, resp) == [st |-> "done", p |-> p, rowIndex |-> 0, resp |-> resp, body |-> <<>>]

Reading(p, rowIndex) ==
    [st |-> "read", p |-> p, rowIndex |-> rowIndex, resp |-> NoResp, body |-> <<>>]

\* Bodies of a POST that give handleRequest no parameters: text that is not
\* JSON, and the JSON text null.
BodyNotJson == <<"{">>
BodyNull == <<"n", "u", "l", "l">>

doPostMutNoCatch(body) == Envelope("fault", Undefined, <<>>, <<>>)

\* doPost on such a body: JSON.parse throws on the first and the catch of
\* doPost answers; handleRequest(null) throws on params.action and its own
\* catch answers.
doPost(body) ==
    IF body = BodyNull THEN createResponse("error", Undefined, <<>>, TextServerError)
    ELSE createResponse("error", Undefined, <<>>, TextInvalidJson)

\* handleGetItem, a read-only handler: its envelope.
handleGetItem(ss, p) ==
    IF p.key = NoKey THEN createResponse("error", Undefined, <<>>, TextKeyRequired)
    ELSE LET data == getOrCreateSheet(ss, SheetNameOf(p.storeId))[SheetNameOf(p.storeId)]
             i == FindRow(data, p.key)
         IN IF Len(data) <= 1 THEN createResponse("not_found", Undefined, <<>>, <<>>)
            ELSE IF i > 0 THEN createResponse("success", data[i].value, <<>>, <<>>)
            ELSE createResponse("not_found", Undefined, <<>>, <<>>)

handleGetAllItemsMutFromHeader(ss, p) ==
    LET data == getOrCreateSheet(ss, SheetNameOf(p.storeId))[SheetNameOf(p.storeId)]
    IN createResponse("success", Undefined, ItemsFrom(data, 1, p.prefix), <<>>)

\* handleGetAllItems, a read-only handler: its envelope.
handleGetAllItems(ss, p) ==
    LET data == getOrCreateSheet(ss, SheetNameOf(p.storeId))[SheetNameOf(p.storeId)]
    IN IF Len(data) <= 1 THEN createResponse("success", Undefined, <<>>, <<>>)
       ELSE createResponse("success", Undefined, ItemsFrom(data, 2, p.prefix), <<>>)

\* key.split(':')
RECURSIVE Split(_, _)
Split(str, sep) ==
    LET hits == {i \in 1..Len(str) : str[i] = sep}
    IN IF hits = {} THEN <<str>>
       ELSE LET i == CHOOSE x \in hits : \A y \in hits : x <= y
            IN <<SubSeq(str, 1, i - 1)>> \o Split(SubSeq(str, i + 1, Len(str)), sep)

DigitChars == <<"0", "1", "2", "3", "4", "5", "6", "7", "8", "9">>

IsDigit(c) == \E d \in 1..10 : DigitChars[d] = c

DigitOf(c) == (CHOOSE d \in 1..10 : DigitChars[d] = c) - 1

\* The time value of an Invalid Date.
InvalidDate == -1

\* new Date(dateStr), for the date-only form YYYY-MM-DD: its time value, in
\* days counted so that they order as the calendar does (372 to the year, 31
\* to the month).  Any other text is taken as an Invalid Date.
NewDate(str) ==
    IF /\ Len(str) = 10
       /\ str[5] = "-" /\ str[8] = "-"
       /\ \A i \in {1, 2, 3, 4, 6, 7, 9, 10} : IsDigit(str[i])
    THEN LET year == 1000 * DigitOf(str[1]) + 100 * DigitOf(str[2])
                     + 10 * DigitOf(str[3]) + DigitOf(str[4])
             month == 10 * DigitOf(str[6]) + DigitOf(str[7])
             day == 10 * DigitOf(str[9]) + DigitOf(str[10])
         IN IF month \in 1..12 /\ day \in 1..31
            THEN 372 * year + 31 * (month - 1) + day
            ELSE InvalidDate
    ELSE InvalidDate

\* itemDate >= start && itemDate <= end: false when one of them is invalid.
InRangeMutEndExclusive(itemDate, start, end) ==
    /\ InvalidDate \notin {itemDate, start, end}
    /\ itemDate >= start
    /\ itemDate < end

InRange(itemDate, start, end) ==
    /\ InvalidDate \notin {itemDate, start, end}
    /\ itemDate >= start
    /\ itemDate <= end

\* a.localeCompare(b) < 0 for texts of digits and hyphens: the first
\* position where they differ decides, a hyphen before any digit, and a
\* proper prefix comes first.
CharRank(c) == IF IsDigit(c) THEN DigitOf(c) + 1 ELSE 0

LocaleLess(a, b) ==
    \E i \in 1..(Len(b)) :
        /\ \A j \in 1..(i - 1) : j <= Len(a) /\ a[j] = b[j]
        /\ \/ i = Len(a) + 1
           \/ i <= Len(a) /\ CharRank(a[i]) < CharRank(b[i])

\* The record handleGetDateRange pushes for a row.
RangeItem(row, dateStr) ==
    [key |-> row.key, value |-> row.value, date |-> dateStr,
     timestamp |-> row.timestamp, lastModified |-> row.lastModified]

\* The loop of handleGetDateRange over the data rows from row i on.
RECURSIVE RangeItems(_, _, _, _)
RangeItems(data, i, start, end) ==
    IF i > Len(data) THEN <<>>
    ELSE LET key == data[i].key
             parts == Split(key, ":")
             rest == RangeItems(data, i + 1, start, end)
         IN IF /\ StartsWith(key, YouseiPrefix)
               /\ Len(parts) >= 3
               /\ InRange(NewDate(parts[3]), start, end)
            THEN <<RangeItem(data[i], parts[3])>> \o rest
            ELSE rest

\* items.sort((a, b) => a.date.localeCompare(b.date)): the sort is stable.
RECURSIVE SortByDate(_)
SortByDate(items) ==
    IF items = <<>> THEN <<>>
    ELSE LET last == items[Len(items)]
             sorted == SortByDate(SubSeq(items, 1, Len(items) - 1))
             k == Cardinality({i \in 1..Len(sorted) : ~LocaleLess(last.date, sorted[i].date)})
         IN SubSeq(sorted, 1, k) \o <<last>> \o SubSeq(sorted, k + 1, Len(sorted))

\* handleGetDateRange, a read-only handler: its envelope.
handleGetDateRange(ss, p) ==
    LET data == getOrCreateSheet(ss, SheetNameOf(p.storeId))[SheetNameOf(p.storeId)]
    IN IF Len(data) <= 1 THEN createResponse("success", Undefined, <<>>, <<>>)
       ELSE createResponse("success", Undefined,
                SortByDate(RangeItems(data, 2, NewDate(p.startDate), NewDate(p.endDate))),
                <<>>)

\* handlePing
handlePing == createResponse("success", Obj(<<"p", "o", "n", "g">>), <<>>, <<>>)

\* The capability-discovery payload of a request without an action.
handleDefault == createResponse("success", Obj(<<"i", "n", "f", "o">>), <<>>, <<>>)

\* A calendar date <<year, month, day>>, and <<>> for an Invalid Date.
IsLeap(year) == year % 4 = 0 /\ (year % 100 # 0 \/ year % 400 = 0)

DaysIn(year, month) ==
    IF month = 2 THEN (IF IsLeap(year) THEN 29 ELSE 28)
    ELSE IF month \in {4, 6, 9, 11} THEN 30 ELSE 31

\* new Date(targetDate), for the date-only form YYYY-MM-DD naming a day of
\* the calendar; any other text is an Invalid Date.
DateOf(str) ==
    IF /\ Len(str) = 10
       /\ str[5] = "-" /\ str[8] = "-"
       /\ \A i \in {1, 2, 3, 4, 6, 7, 9, 10} : IsDigit(str[i])
    THEN LET year == 1000 * DigitOf(str[1]) + 100 * DigitOf(str[2])
                     + 10 * DigitOf(str[3]) + DigitOf(str[4])
             month == 10 * DigitOf(str[6]) + DigitOf(str[7])
             day == 10 * DigitOf(str[9]) + DigitOf(str[10])
         IN IF month \in 1..12 /\ day \in 1..DaysIn(year, month)
            THEN <<year, month, day>>
            ELSE <<>>
    ELSE <<>>

\* setDate(getDate() + n): n days later (earlier for n < 0), carried over the
\* ends of months and years.
RECURSIVE AddDays(_, _)
AddDays(d, n) ==
    IF n = 0 THEN d
    ELSE IF n > 0
    THEN AddDays(IF d[3] < DaysIn(d[1], d[2]) THEN <<d[1], d[2], d[3] + 1>>
                 ELSE IF d[2] < 12 THEN <<d[1], d[2] + 1, 1>>
                 ELSE <<d[1] + 1, 1, 1>>, n - 1)
    ELSE AddDays(IF d[3] > 1 THEN <<d[1], d[2], d[3] - 1>>
                 ELSE IF d[2] > 1 THEN <<d[1], d[2] - 1, DaysIn(d[1], d[2] - 1)>>
                 ELSE <<d[1] - 1, 12, 31>>, n + 1)

\* setFullYear(getFullYear() - 1): the same month and day a year earlier; the
\* 29th of February, which that year lacks, carries to the 1st of March.
PreviousYear(d) ==
    IF d[3] <= DaysIn(d[1] - 1, d[2]) THEN <<d[1] - 1, d[2], d[3]>>
    ELSE AddDays(<<d[1] - 1, d[2], DaysIn(d[1] - 1, d[2])>>, d[3] - DaysIn(d[1] - 1, d[2]))

TwoDigits(n) == <<DigitChars[(n \div 10) + 1], DigitChars[(n % 10) + 1]>>

\* toISOString().slice(0, 10)
ISODate(d) ==
    TwoDigits(d[1] \div 100) \o TwoDigits(d[1] % 100) \o <<"-">> \o TwoDigits(d[2])
    \o <<"-">> \o TwoDigits(d[3])

\* `yousei:${storeId || 'default'}:${date}`
YouseiKey(storeId, d) ==
    <<"y", "o", "u", "s", "e", "i", ":">> \o SheetNameOf(storeId) \o <<":">> \o ISODate(d)

\* The days handleGetPreviousYearData tries, in order: the day a year before
\* the target, then 1, 2 and 3 days before and after it, the earlier first.
ProbeDates(prevYear) ==
    <<prevYear, AddDays(prevYear, -1), AddDays(prevYear, 1), AddDays(prevYear, -2),
      AddDays(prevYear, 2), AddDays(prevYear, -3), AddDays(prevYear, 3)>>

\* ContentService.createTextOutput(JSON.stringify(response)): what a handler
\* returns is the text output holding the envelope, not the envelope.
TextOutput(response) == [content |-> response]

\* result.status and result.data, read off what a handler returned: a property
\* the object does not have reads as undefined.
StatusOf(result) == IF "status" \in DOMAIN result THEN result.status ELSE "undefined"

DataOf(result) == IF "data" \in DOMAIN result THEN result.data ELSE Undefined

\* result.status === 'success'
ProbeFound(result) == StatusOf(result) = "success"

\* handleGetPreviousYearData, a read-only handler: its envelope.
handleGetPreviousYearData(ss, p) ==
    LET target == DateOf(p.targetDate)
    IN IF target = <<>>
       THEN createResponse("error", Undefined, <<>>, TextPrevYearFailed)
       ELSE LET dates == ProbeDates(PreviousYear(target))
                result(j) == TextOutput(handleGetItem(ss,
                                 Params("getItem", YouseiKey(p.storeId, dates[j]),
                                        Undefined, p.storeId, 0, <<>>)))
                found == {j \in 1..Len(dates) : ProbeFound(result(j))}
            IN IF found = {} THEN createResponse("not_found", Undefined, <<>>, <<>>)
               ELSE LET j == CHOOSE x \in found : \A y \in found : x <= y
                    IN createResponse("success", DataOf(result(j)), <<>>, <<>>)

\* The calendar day (UTC) of an instant of the server's clock: two instants to
\* the day.
DayOf(t) == (t + 1) \div 2

\* new Date().toISOString().slice(0, 10).replace(/-/g, '')
DayStamp(day) == <<"2", "0", "2", "4", "0", "1">> \o TwoDigits(day)

\* 'backup_' + (storeId || 'default') + '_' + the day
BackupName(storeId, day) ==
    <<"b", "a", "c", "k", "u", "p", "_">> \o SheetNameOf(storeId) \o <<"_">> \o DayStamp(day)

\* The name a copy carries until it is renamed.
CopyName(name) == <<"C", "o", "p", "y", " ", "o", "f", " ">> \o name

\* spreadsheet.deleteSheet(existingBackup), when getSheetByName found one.
deleteSheetMutKeeps(ss, name) == ss

deleteSheet(ss, name) == [n \in DOMAIN ss \ {name} |-> ss[n]]

\* sheet.copyTo(spreadsheet) and setName(backupSheetName): a sheet with the
\* rows of the store's sheet under the backup's name.
copyTo(ss, name, backupName) ==
    [n \in DOMAIN ss \cup {backupName} |-> IF n = backupName THEN ss[name] ELSE ss[n]]

\* lastModified = null
NoTime == 0

\* The loop of handleGetSyncStatus from row i on: the greatest lastModified
\* cell, the empty ones skipped, starting from lastModified.
RECURSIVE LastModified(_, _, _)
LastModified(data, i, lastModified) ==
    IF i > Len(data) THEN lastModified
    ELSE LET modified == data[i].lastModified
         IN LastModified(data, i + 1,
                IF modified # 0 /\ (lastModified = NoTime \/ modified > lastModified)
                THEN modified ELSE lastModified)

\* { lastSync, itemCount, sheetName }
StatusData(lastSync, itemCount, sheetName) ==
    [t |-> "object", s |-> <<>>, lastSync |-> lastSync, itemCount |-> itemCount,
     sheetName |-> sheetName]

itemCountMutCountsHeader(data) == Len(data)

\* Math.max(0, data.length - 1)
itemCount(data) == IF Len(data) - 1 > 0 THEN Len(data) - 1 ELSE 0

\* handleGetSyncStatus, a read-only handler: its envelope.
handleGetSyncStatus(ss, p) ==
    LET name == SheetNameOf(p.storeId)
        data == getOrCreateSheet(ss, name)[name]
    IN createResponse("success",
           StatusData(IF Len(data) > 1 THEN LastModified(data, 2, NoTime) ELSE NoTime,
                      itemCount(data), name),
           <<>>, <<>>)

\* The history of live insertions after a setItem of key k has been written.
Inserted(order, k) ==
    IF \E i \in 1..Len(order) : order[i] = k THEN order ELSE Append(order, k)

\* The history of live insertions after key k has been removed.
Removed(order, k) == SelectSeq(order, LAMBDA x : x # k)

\* doGet/doPost -> handleRequest -> the handler, up to and including its read
\* of the sheet (getDataRange().getValues()).  A handler that writes nothing
\* ends here with its envelope; handleSetItem and handleRemoveItem go on to
\* their write with the row index they computed from the rows read.
HandlerStart(h, p) ==
    /\ handlers[h].st = "idle"
    /\ arrived' = arrived + 1
    /\ LET name == SheetNameOf(p.storeId)
           ss == getOrCreateSheet(sheets, name)
           data == ss[name]
           i == FindRow(data, p.key)
       IN CASE p.action = "" ->
                 /\ handlers' = [handlers EXCEPT ![h] = Done(p, handleDefault)]
                 /\ UNCHANGED sheets
            [] p.action = "ping" ->
                 /\ handlers' = [handlers EXCEPT ![h] = Done(p, handlePing)]
                 /\ UNCHANGED sheets
            [] p.action = "getItem" ->
                 /\ handlers' = [handlers EXCEPT ![h] = Done(p, handleGetItem(sheets, p))]
                 /\ sheets' = IF p.key = NoKey THEN sheets ELSE ss
            [] p.action = "getAllItems" ->
                 /\ handlers' = [handlers EXCEPT ![h] = Done(p, handleGetAllItems(sheets, p))]
                 /\ sheets' = ss
            [] p.action = "getDateRange" ->
                 /\ handlers' = [handlers EXCEPT ![h] = Done(p, handleGetDateRange(sheets, p))]
                 /\ sheets' = ss
            [] p.action = "getPreviousYearData" ->
                 /\ handlers' = [handlers EXCEPT ![h] =
                        Done(p, handleGetPreviousYearData(sheets, p))]
                 /\ sheets' = IF DateOf(p.targetDate) = <<>> THEN sheets ELSE ss
            [] p.action = "getSyncStatus" ->
                 /\ handlers' = [handlers EXCEPT ![h] = Done(p, handleGetSyncStatus(sheets, p))]
                 /\ sheets' = ss
            [] p.action = "createBackup" ->
                 \* The day of the backup's name is kept where the other
                 \* handlers keep their row index.
                 /\ handlers' = [handlers EXCEPT ![h] = Reading(p, DayOf(clock))]
                 /\ sheets' = deleteSheet(ss, BackupName(p.storeId, DayOf(clock)))
            [] p.action = "setItem" ->
                 IF p.key = NoKey
                 THEN /\ handlers' = [handlers EXCEPT ![h] =
                             Done(p, createResponse("error", Undefined, <<>>, TextKeyRequired))]
                      /\ UNCHANGED sheets
                 ELSE IF p.value.t = "undefined"
                 THEN /\ handlers' = [handlers EXCEPT ![h] =
                             Done(p, createResponse("error", Undefined, <<>>, TextValueRequired))]
                      /\ UNCHANGED sheets
                 ELSE /\ handlers' = [handlers EXCEPT ![h] = Reading(p, i)]
                      /\ sheets' = ss
            [] p.action = "removeItem" ->
                 IF p.key = NoKey
                 THEN /\ handlers' = [handlers EXCEPT ![h] =
                             Done(p, createResponse("error", Undefined, <<>>, TextKeyRequired))]
                      /\ UNCHANGED sheets
                 ELSE /\ sheets' = ss
                      /\ handlers' = [handlers EXCEPT ![h] =
                             IF Len(data) <= 1 \/ i < 0
                             THEN Done(p, createResponse("not_found", Undefined, <<>>, <<>>))
                             ELSE Reading(p, i)]
            [] OTHER ->
                 /\ handlers' = [handlers EXCEPT ![h] =
                        Done(p, createResponse("error", Undefined, <<>>, TextUnknownAction))]
                 /\ UNCHANGED sheets
    /\ UNCHANGED <<clock, insOrder>>

\* The execution for request p fails at its first access to the spreadsheet
\* (getOrCreateSheet throws): the catch block of the handler answers with an
\* error envelope and nothing is written.  In handleGetPreviousYearData the
\* failure is caught by handleGetItem at every probe, and the answer is the
\* one for no probe found.
HandlerThrows(h, p) ==
    /\ handlers[h].st = "idle"
    /\ p.action \in {"setItem", "getItem", "removeItem", "getAllItems", "getDateRange",
                     "getPreviousYearData", "createBackup", "getSyncStatus"}
    /\ p.action \in {"setItem", "getItem", "removeItem"} => p.key # NoKey
    /\ p.action = "setItem" => p.value.t # "undefined"
    /\ arrived' = arrived + 1
    /\ handlers' = [handlers EXCEPT ![h] =
           Done(p, IF p.action = "getPreviousYearData" /\ DateOf(p.targetDate) # <<>>
                   THEN createResponse("not_found", Undefined, <<>>, <<>>)
                   ELSE createResponse("error", Undefined, <<>>,
                            CASE p.action = "setItem" -> TextSaveFailed
                              [] p.action = "getItem" -> TextGetFailed
                              [] p.action = "removeItem" -> TextRemoveFailed
                              [] p.action = "getDateRange" -> TextRangeFailed
                              [] p.action = "getPreviousYearData" -> TextPrevYearFailed
                              [] p.action = "createBackup" -> TextBackupFailed
                              [] p.action = "getSyncStatus" -> TextStatusFailed
                              [] OTHER -> TextGetAllFailed))]
    /\ UNCHANGED <<sheets, clock, insOrder>>

\* A POST whose body gives no parameters is answered by doPost.
PostArrives(h, body) ==
    /\ handlers[h].st = "idle"
    /\ arrived' = arrived + 1
    /\ handlers' = [handlers EXCEPT ![h] = [Done(NoParams, doPost(body)) EXCEPT !.body = body]]
    /\ UNCHANGED <<sheets, clock, insOrder>>

\* The write of handleSetItem (setValues on the row found, else appendRow), of
\* handleRemoveItem (deleteRow), with the row index computed at the read, and of
\* handleCreateBackup (copyTo and setName, which throws when a sheet of that
\* name exists, leaving the copy behind), and the envelope returned.
HandlerWrite(h) ==
    /\ handlers[h].st = "read"
    /\ LET p == handlers[h].p
           name == SheetNameOf(p.storeId)
           rowIndex == handlers[h].rowIndex
           now == clock
           rowData == Row(p.key, p.value, IF p.timestamp = 0 THEN now ELSE p.timestamp, now)
       IN IF p.action = "setItem"
          THEN /\ sheets' = [sheets EXCEPT ![name] =
                      IF rowIndex > 0 THEN SetRow(@, rowIndex, rowData) ELSE Append(@, rowData)]
               /\ insOrder' = [insOrder EXCEPT ![name] = Inserted(@, p.key)]
               /\ handlers' = [handlers EXCEPT ![h] =
                      Done(p, createResponse("success", Obj(<<"s", "a", "v", "e", "d">>), <<>>, <<>>))]
          ELSE IF p.action = "createBackup"
          THEN LET backupName == BackupName(p.storeId, rowIndex)
               IN IF name \notin DOMAIN sheets
                  THEN /\ handlers' = [handlers EXCEPT ![h] =
                              Done(p, createResponse("error", Undefined, <<>>, TextBackupFailed))]
                       /\ UNCHANGED <<sheets, insOrder>>
                  ELSE IF backupName \in DOMAIN sheets
                  THEN /\ sheets' = copyTo(sheets, name, CopyName(name))
                       /\ handlers' = [handlers EXCEPT ![h] =
                              Done(p, createResponse("error", Undefined, <<>>, TextBackupFailed))]
                       /\ UNCHANGED insOrder
                  ELSE /\ sheets' = copyTo(sheets, name, backupName)
                       /\ handlers' = [handlers EXCEPT ![h] =
                              Done(p, createResponse("success", Obj(backupName), <<>>, <<>>))]
                       /\ UNCHANGED insOrder
          ELSE IF rowIndex <= Len(sheets[name])
          THEN /\ sheets' = [sheets EXCEPT ![name] = DeleteRow(@, rowIndex)]
               /\ insOrder' = [insOrder EXCEPT ![name] = Removed(@, p.key)]
               /\ handlers' = [handlers EXCEPT ![h] =
                      Done(p, createResponse("success", Obj(<<"r", "e", "m", "o", "v", "e", "d">>), <<>>, <<>>))]
          ELSE /\ handlers' = [handlers EXCEPT ![h] =
                      Done(p, createResponse("error", Undefined, <<>>, TextRemoveFailed))]
               /\ UNCHANGED <<sheets, insOrder>>
    /\ UNCHANGED <<clock, arrived>>

\* The server's clock advances.
Tick ==
    /\ clock < MaxClock
    /\ clock' = clock + 1
    /\ UNCHANGED <<sheets, handlers, insOrder, arrived>>


----------------------------------------------------------------------------
(* BaseStorage: shared helpers *)

\* generateKey(prefix, id, suffix): the non-empty parts joined with '.'.
RECURSIVE JoinDot(_)
JoinDot(parts) ==
    IF Len(parts) = 0 THEN <<>>
    ELSE IF Len(parts) = 1 THEN parts[1]
    ELSE parts[1] \o <<".">> \o JoinDot(Tail(parts))

generateKey(prefix, id, suffix) ==
    JoinDot(SelectSeq(<<prefix, id, suffix>>, LAMBDA part : part # <<>>))

\* validateData(data): TRUE when it returns, FALSE when it throws.  Every
\* value of the model has a JSON text, so only null and undefined are refused.
validateDataMutAccept(data) == TRUE

validateData(data) == data.t \notin {"null", "undefined"}

\* String.prototype.includes
Includes(s, sub) ==
    \E i \in 1..(Len(s) - Len(sub) + 1) : SubSeq(s, i, i + Len(sub) - 1) = sub

----------------------------------------------------------------------------
(* GASStorage: errors, transport and makeRequest *)

Err(name, message) == [name |-> name, message |-> message]
NoErr == Err("", <<>>)

MsgTimeout == <<"R", "e", "q", "u", "e", "s", "t", " ", "t", "i", "m", "e", "o", "u", "t">>
MsgNetwork == <<"n", "e", "t", "w", "o", "r", "k", " ", "e", "r", "r", "o", "r">>
MsgFailed == <<"F", "a", "i", "l", "e", "d", " ", "t", "o", " ", "f", "e", "t", "c", "h">>
MsgHttp == <<"H", "T", "T", "P", " ", "5", "0", "0", ":", " ">>
MsgJson == <<"U", "n", "e", "x", "p", "e", "c", "t", "e", "d", " ", "t", "o", "k", "e", "n">>
MsgNoUrl == <<"n", "o", " ", "U", "R", "L">>
MsgNotInit == <<"n", "o", "t", " ", "i", "n", "i", "t">>
MsgInvalid == <<"n", "o", " ", "d", "a", "t", "a">>
MsgSaveFailed == <<"S", "a", "v", "e", " ", "f", "a", "i", "l", "e", "d">>
MsgRemoveFailed == <<"R", "e", "m", "o", "v", "e", " ", "f", "a", "i", "l", "e", "d">>
MsgNotImpl == <<"n", "o", " ", "i", "m", "p", "l">>

\* What fetch, the HTTP status check and response.json() can throw.
\* An abort reaches the catch block as an error named AbortError.  Where it
\* is a DOMException its message has a getter only; where fetch is a
\* polyfill it is an ordinary writable property.
AbortError == Err("AbortError", <<"a", "b", "o", "r", "t">>)
AbortDOMException == Err("AbortError", <<"a", "b", "o", "r", "t", "e", "d">>)
MsgGetterOnly == <<"h", "a", "s", " ", "o", "n", "l", "y", " ", "a", " ", "g", "e", "t", "t", "e", "r">>
FetchNetworkError == Err("TypeError", MsgNetwork)
FetchFailedError == Err("TypeError", MsgFailed)
HttpError == Err("Error", MsgHttp)
JsonError == Err("SyntaxError", MsgJson)

TransportErrors ==
    {AbortError, AbortDOMException, FetchNetworkError, FetchFailedError, HttpError, JsonError}

\* The catch block of makeRequest assigns the message of an abort.  The
\* class body is strict code: assigning a getter-only message throws a
\* TypeError out of the catch block, past the retry.
Caught(error) ==
    IF error = AbortDOMException THEN Err("TypeError", MsgGetterOnly)
    ELSE IF error.name = "AbortError" THEN Err("AbortError", MsgTimeout)
    ELSE error

\* The retry condition of makeRequest, for the caught error.
Retryable(error) ==
    \/ Includes(error.message, <<"t", "i", "m", "e", "o", "u", "t">>)
    \/ Includes(error.message, <<"n", "e", "t", "w", "o", "r", "k">>)

\* this.retryCount, from NETWORK_SETTINGS.MAX_RETRY_COUNT || 3
RetryCount == 3

\* The delay makeRequest sleeps before retry number retryCount + 1.
RetryDelay(retryCount) == 1000 * (retryCount + 1)

UrlNone == <<>>
UrlService == <<"s">>
UrlOther == <<"o">>

True == [t |-> "boolean", s |-> <<"t", "r", "u", "e">>]
False == [t |-> "boolean", s |-> <<"f", "a", "l", "s", "e">>]

NoCall ==
    [op |-> "none", key |-> NoKey, value |-> Undefined, store |-> NoStore, pc |-> "idle",
     req |-> NoParams, retryCount |-> 0, slept |-> <<>>, sent |-> 0, errs |-> <<>>,
     was |-> FALSE, text |-> <<>>]

\* A completed call: what it was, how it ended (kind "return" or "throw"),
\* the value or items returned, the error thrown, the status of the envelope
\* received ("none" when makeRequest threw), and makeRequest's record: the
\* delays it slept, the requests it sent and the errors that reached its
\* catch block; was: this.initialized when the call began; text: the error
\* text of the envelope received.
Completed(c, kind, val, items, error, status) ==
    [op |-> c.op, key |-> c.key, value |-> c.value, store |-> c.store, kind |-> kind,
     val |-> val, items |-> items, error |-> error, status |-> status,
     slept |-> c.slept, sent |-> c.sent, errs |-> c.errs, was |-> c.was, text |-> c.text]

NoCompleted == Completed(NoCall, "none", Undefined, <<>>, NoErr, "none")

\* The call ends: its record joins the history.
Finish(c, kind, val, items, error, status) ==
    /\ hist' = <<hist[2], Completed(c, kind, val, items, error, status)>>
    /\ savedKeys' = IF c.op = "setItem" /\ kind = "return"
                    THEN savedKeys \cup {<<c.store, c.key>>} ELSE savedKeys
    /\ call' = NoCall

\* The truthiness of a value: if (localData), config.enabled && ...
Truthy(v) ==
    /\ v.t \notin {"null", "undefined"}
    /\ v.t = "string" => v.s # <<>>
    /\ v.t = "boolean" => v.s = <<"t", "r", "u", "e">>
    /\ v.t = "number" => v.s \notin {<<"0">>, <<"N", "a", "N">>}

\* new Error(result.error || fallback)
ServerErrorMutFallback(env, fallback) == Err("Error", fallback)

ServerError(env, fallback) == Err("Error", IF env.error # <<>> THEN env.error ELSE fallback)

\* The part of each method that follows `await this.makeRequest(...)`, for
\* the envelope received.
AfterResponse(c0, env) ==
    LET c == [c0 EXCEPT !.text = env.error] IN
    CASE c.op = "init" ->
            Finish(c, "return", IF env.status = "success" THEN True ELSE False,
                   <<>>, NoErr, env.status)
      [] c.op = "setItem" ->
            IF env.status = "success"
            THEN Finish(c, "return", True, <<>>, NoErr, env.status)
            ELSE Finish(c, "throw", Undefined, <<>>, ServerError(env, MsgSaveFailed), env.status)
      [] c.op = "getItem" ->
            IF env.status = "success"
            THEN Finish(c, "return", env.data, <<>>, NoErr, env.status)
            ELSE Finish(c, "return", Null, <<>>, NoErr, env.status)
      [] c.op = "removeItem" ->
            IF env.status = "success"
            THEN Finish(c, "return", True, <<>>, NoErr, env.status)
            ELSE Finish(c, "throw", Undefined, <<>>, ServerError(env, MsgRemoveFailed), env.status)
      [] c.op = "getAllItems" ->
            IF env.status = "success"
            THEN Finish(c, "return", Undefined, env.items, NoErr, env.status)
            ELSE Finish(c, "return", Undefined, <<>>, NoErr, env.status)
      [] c.op = "getDateRange" ->
            IF env.status = "success"
            THEN Finish(c, "return", Undefined, env.items, NoErr, env.status)
            ELSE Finish(c, "return", Undefined, <<>>, NoErr, env.status)
      [] c.op = "getPreviousYearData" ->
            IF env.status = "success" /\ Truthy(env.data)
            THEN Finish(c, "return", env.data, <<>>, NoErr, env.status)
            ELSE Finish(c, "return", Null, <<>>, NoErr, env.status)

\* init sets the flag when testConnection reports success, and only then.
InitializedAfterMutAnyAnswer(g, c, env) ==
    IF c.op = "init" THEN [g EXCEPT !.initialized = TRUE] ELSE g

InitializedAfter(g, c, env) ==
    IF c.op = "init" /\ env.status = "success" THEN [g EXCEPT !.initialized = TRUE] ELSE g

\* The catch block of each method, for the error makeRequest (or a check
\* before it) threw.
AfterThrowMutPropagate(c, error) == Finish(c, "throw", Undefined, <<>>, error, "none")

AfterThrow(c, error) ==
    CASE c.op = "init" -> Finish(c, "return", False, <<>>, NoErr, "none")
      [] c.op = "setItem" -> Finish(c, "throw", Undefined, <<>>, error, "none")
      [] c.op = "getItem" -> Finish(c, "return", Null, <<>>, NoErr, "none")
      [] c.op = "removeItem" -> Finish(c, "throw", Undefined, <<>>, error, "none")
      [] c.op = "getAllItems" -> Finish(c, "return", Undefined, <<>>, NoErr, "none")
      [] c.op = "delete" -> Finish(c, "throw", Undefined, <<>>, error, "none")
      [] c.op = "getDateRange" -> Finish(c, "return", Undefined, <<>>, NoErr, "none")
      [] c.op = "getPreviousYearData" -> Finish(c, "return", Null, <<>>, NoErr, "none")

\* makeRequest(method, data): its first lines.  Without a URL it throws
\* before any request; else the request is ready for fetch.
makeRequest(c, url, data) ==
    IF url = UrlNone
    THEN AfterThrow(c, Err("Error", MsgNoUrl))
    ELSE /\ call' = [c EXCEPT !.pc = "fetch", !.req = data]
         /\ UNCHANGED <<hist, savedKeys>>

\* The catch block of makeRequest: retry after a delay while retryCount <
\* this.retryCount and the message names a timeout or the network; else throw.
RequestFailed(c, error) ==
    IF c.retryCount < RetryCount /\ Retryable(Caught(error))
    THEN /\ call' = [c EXCEPT !.pc = "fetch", !.retryCount = @ + 1,
                              !.slept = Append(@, RetryDelay(c.retryCount)),
                              !.errs = Append(@, error)]
         /\ UNCHANGED <<hist, savedKeys>>
    ELSE AfterThrow([c EXCEPT !.errs = Append(@, error)], Caught(error))

\* The body of a POST is JSON.stringify(data) and the service parses it; the
\* parameters of a GET are strings of the query.
Wire(v) == IF v.t = "undefined" THEN v ELSE JSONparse(JSONstringify(v))

WireParams(p) == [p EXCEPT !.value = Wire(@)]

\* The envelope is JSON.stringify(response) and the client parses it.
WireEnvelope(env) == [env EXCEPT !.data = Wire(@)]

\* GASStorage.getSyncStatus, from the envelope of its request on: what it
\* returns.  Without a success envelope it reports a lost connection.
NotConnected == [connected |-> FALSE, lastSync |-> NoTime, itemCount |-> -1]

getSyncStatus(initialized, result) ==
    IF ~initialized THEN NotConnected
    ELSE IF result.status = "success"
    THEN [connected |-> TRUE, lastSync |-> result.data.lastSync,
          itemCount |-> result.data.itemCount]
    ELSE NotConnected

----------------------------------------------------------------------------
(* GASStorage: the methods *)

Start(op, k, v) ==
    [NoCall EXCEPT !.op = op, !.key = k, !.value = v, !.store = gas.storeId,
                   !.was = gas.initialized]

\* A continuation is due: the call a method awaited has ended, or the pass
\* is between two keys.  It runs before any other code of the page.
Running ==
    \/ sync.pc = "loop"
    \/ sync.pc = "await" /\ call.pc = "idle"
    \/ conf.pc \in {"enable", "autoInit"} /\ call.pc = "idle"
    \/ conf.pc = "autosync" /\ sync.pc = "done"

CanCall == call.pc = "idle" /\ budget.calls > 0 /\ ~Running

Spend(what) == budget' = [budget EXCEPT ![what] = @ - 1]

\* init(webAppUrl, storeId): stores both, then testConnection pings.
init(url, store) ==
    /\ gas' = [gas EXCEPT !.webAppUrl = url, !.storeId = store]
    /\ makeRequest([Start("init", NoKey, Undefined) EXCEPT !.store = store], url,
                   Params("ping", NoKey, Undefined, NoStore, 0, <<>>))

\* The page calls init.
GasInit(url, store) ==
    /\ CanCall
    /\ Spend("calls")
    /\ init(url, store)
    /\ UNCHANGED <<serverVars, nonGasVars>>

\* setItem(key, value), also save(key, data).
save(k, v) ==
    IF ~gas.initialized THEN AfterThrow(Start("setItem", k, v), Err("Error", MsgNotInit))
    ELSE IF ~validateData(v) THEN AfterThrow(Start("setItem", k, v), Err("Error", MsgInvalid))
    ELSE makeRequest(Start("setItem", k, v), gas.webAppUrl,
             Params("setItem", generateKey(gas.storeId, k, <<>>),
                    IF v.t = "string" THEN v ELSE Str(JSONstringify(v)),
                    gas.storeId, clock, <<>>))

\* The page calls setItem.
setItem(k, v) ==
    /\ CanCall
    /\ Spend("calls")
    /\ save(k, v)
    /\ UNCHANGED <<gas, serverVars, nonGasVars>>

\* getItem(key), also load(key).
getItem(k) ==
    /\ CanCall
    /\ Spend("calls")
    /\ IF ~gas.initialized THEN AfterThrow(Start("getItem", k, Undefined), Err("Error", MsgNotInit))
       ELSE makeRequest(Start("getItem", k, Undefined), gas.webAppUrl,
                Params("getItem", generateKey(gas.storeId, k, <<>>), Undefined,
                       gas.storeId, 0, <<>>))
    /\ UNCHANGED <<gas, serverVars, nonGasVars>>

\* removeItem(key): the key is sent as given.
removeItem(k) ==
    /\ CanCall
    /\ Spend("calls")
    /\ IF ~gas.initialized THEN AfterThrow(Start("removeItem", k, Undefined), Err("Error", MsgNotInit))
       ELSE makeRequest(Start("removeItem", k, Undefined), gas.webAppUrl,
                Params("removeItem", k, Undefined, gas.storeId, 0, <<>>))
    /\ UNCHANGED <<gas, serverVars, nonGasVars>>

\* delete(key): not implemented, it throws.
delete(k) ==
    /\ CanCall
    /\ Spend("calls")
    /\ AfterThrow(Start("delete", k, Undefined), Err("Error", MsgNotImpl))
    /\ UNCHANGED <<gas, serverVars, nonGasVars>>

\* getAllItems(prefix)
getAllItems(prefix) ==
    /\ CanCall
    /\ Spend("calls")
    /\ IF ~gas.initialized THEN AfterThrow(Start("getAllItems", prefix, Undefined), Err("Error", MsgNotInit))
       ELSE makeRequest(Start("getAllItems", prefix, Undefined), gas.webAppUrl,
                Params("getAllItems", NoKey, Undefined, gas.storeId, 0, prefix))
    /\ UNCHANGED <<gas, serverVars, nonGasVars>>

\* getDateRange(startDate, endDate); the record of the call keeps the two
\* dates in its key and value.
getDateRange(startDate, endDate) ==
    /\ CanCall
    /\ Spend("calls")
    /\ LET c == Start("getDateRange", startDate, Str(endDate))
       IN IF ~gas.initialized THEN AfterThrow(c, Err("Error", MsgNotInit))
          ELSE makeRequest(c, gas.webAppUrl, RangeParams(gas.storeId, startDate, endDate))
    /\ UNCHANGED <<gas, serverVars, nonGasVars>>

\* getPreviousYearData(targetDate); the record of the call keeps the date in
\* its key.
getPreviousYearData(targetDate) ==
    /\ CanCall
    /\ Spend("calls")
    /\ LET c == Start("getPreviousYearData", targetDate, Undefined)
       IN IF ~gas.initialized THEN AfterThrow(c, Err("Error", MsgNotInit))
          ELSE makeRequest(c, gas.webAppUrl, TargetParams(gas.storeId, targetDate))
    /\ UNCHANGED <<gas, serverVars, nonGasVars>>

----------------------------------------------------------------------------
(* GASStorage: one fetch of makeRequest and what the transport does to it *)

\* fetch reaches the service, which starts the handler.  The client's
\* requests are served one after the other: an execution whose client gave
\* up has ended before the client's next request arrives.
Deliver ==
    /\ call.pc = "fetch"
    /\ gas.webAppUrl = UrlService
    /\ \A h \in DOMAIN handlers : handlers[h].st = "idle"
    /\ HandlerStart(1, WireParams(call.req))
    /\ call' = [call EXCEPT !.pc = "wait", !.sent = @ + 1]
    /\ UNCHANGED <<gas, hist, savedKeys, budget, nonGasVars>>

\* fetch reaches the service and the execution fails on the spreadsheet.
DeliverThrows ==
    /\ call.pc = "fetch"
    /\ gas.webAppUrl = UrlService
    /\ budget.faults > 0
    /\ Spend("faults")
    /\ \A h \in DOMAIN handlers : handlers[h].st = "idle"
    /\ HandlerThrows(1, WireParams(call.req))
    /\ call' = [call EXCEPT !.pc = "wait", !.sent = @ + 1]
    /\ UNCHANGED <<gas, hist, savedKeys, nonGasVars>>

\* The URL is some other endpoint: it answers with an error envelope.
DeliverOther ==
    /\ call.pc = "fetch"
    /\ gas.webAppUrl = UrlOther
    /\ AfterResponse([call EXCEPT !.sent = @ + 1], Envelope("error", Undefined, <<>>, TextElsewhere))
    /\ gas' = InitializedAfter(gas, call, Envelope("error", Undefined, <<>>, TextElsewhere))
    /\ UNCHANGED <<budget, serverVars, nonGasVars>>

\* fetch fails before the service has seen the request: the timer aborts
\* it, the network fails, or the answer is not an OK JSON response.
FetchFault(error) ==
    /\ call.pc = "fetch"
    /\ budget.faults > 0
    /\ Spend("faults")
    /\ RequestFailed([call EXCEPT !.sent = @ + 1], error)
    /\ UNCHANGED <<gas, serverVars, nonGasVars>>

\* The request was delivered, and the client's wait ends in an error: the
\* execution goes on without its client.
ResponseFault(error) ==
    /\ call.pc = "wait"
    /\ budget.faults > 0
    /\ Spend("faults")
    /\ RequestFailed(call, error)
    /\ handlers' = [handlers EXCEPT ![1] = IF @.st = "done" THEN IdleHandler ELSE @]
    /\ UNCHANGED <<gas, sheets, clock, insOrder, arrived, nonGasVars>>

\* The envelope of the finished execution arrives.
Receive ==
    /\ call.pc = "wait"
    /\ handlers[1].st = "done"
    /\ AfterResponse(call, WireEnvelope(handlers[1].resp))
    /\ gas' = InitializedAfter(gas, call, handlers[1].resp)
    /\ handlers' = [handlers EXCEPT ![1] = IdleHandler]
    /\ UNCHANGED <<budget, sheets, clock, insOrder, arrived, nonGasVars>>

\* An execution whose client gave up ends; its envelope goes nowhere.
Discard ==
    /\ call.pc # "wait"
    /\ handlers[1].st = "done"
    /\ handlers' = [handlers EXCEPT ![1] = IdleHandler]
    /\ UNCHANGED <<clientVars, sheets, clock, insOrder, arrived, nonGasVars>>

----------------------------------------------------------------------------
(* BaseStorage.withRetry *)

Min(a, b) == IF a < b THEN a ELSE b

\* The errors and results of the operations handed to the helpers.
OpErrors == {Err("Error", <<"e", "1">>), Err("TypeError", <<"e", "2">>)}
OpResults == {ValX, Undefined}

NoRetry ==
    [pc |-> "idle", maxRetries |-> 0, attempt |-> 0, invoked |-> 0, slept |-> <<>>,
     errs |-> <<>>, lastError |-> NoErr, kind |-> "none", val |-> Undefined, error |-> NoErr]

\* The delay before the attempt that follows failed attempt `attempt`.
BackoffDelayMutNoCap(attempt) == 1000 * Pow2(attempt)

BackoffDelay(attempt) == Min(1000 * Pow2(attempt), 5000)

\* The condition of the for loop.
InLoopMutOneLess(attempt, maxRetries) == attempt < maxRetries

InLoop(attempt, maxRetries) == attempt <= maxRetries

\* The head of the loop for the value r.attempt: one more invocation, or
\* `throw lastError` once the loop is left.
LoopHead(r) ==
    IF InLoop(r.attempt, r.maxRetries)
    THEN [r EXCEPT !.pc = "call"]
    ELSE [r EXCEPT !.pc = "done", !.kind = "throw", !.error = r.lastError]

\* withRetry(operation, maxRetries)
withRetry(maxRetries) ==
    /\ retry.pc = "idle"
    /\ retry' = LoopHead([NoRetry EXCEPT !.maxRetries = maxRetries])
    /\ UNCHANGED nonRetryVars

\* `return await operation()`: the operation resolves.
RetryOperationResolves(v) ==
    /\ retry.pc = "call"
    /\ retry' = [retry EXCEPT !.pc = "done", !.invoked = @ + 1, !.kind = "return", !.val = v]
    /\ UNCHANGED nonRetryVars

\* The operation rejects: the catch block keeps the error and sleeps when
\* attempts remain; after the last attempt the loop goes on to its end.
RetryOperationRejects(e) ==
    /\ retry.pc = "call"
    /\ LET r == [retry EXCEPT !.invoked = @ + 1, !.lastError = e, !.errs = Append(@, e)]
       IN retry' = IF r.attempt < r.maxRetries
                   THEN [r EXCEPT !.pc = "sleep"]
                   ELSE LoopHead([r EXCEPT !.attempt = @ + 1])
    /\ UNCHANGED nonRetryVars

\* `await this.sleep(delay)` is over: the next attempt.
RetrySleepEnds ==
    /\ retry.pc = "sleep"
    /\ retry' = LoopHead([retry EXCEPT !.slept = Append(@, BackoffDelay(retry.attempt)),
                                       !.attempt = @ + 1])
    /\ UNCHANGED nonRetryVars

----------------------------------------------------------------------------
(* BaseStorage.withTimeout *)

NoTimeout ==
    [pc |-> "idle", timeoutMs |-> 0, now |-> 0, timer |-> "none", aborted |-> FALSE,
     reacts |-> FALSE, kind |-> "none", val |-> Undefined, error |-> NoErr]

\* new Error(`Operation timed out after ${timeoutMs}ms`)
TimedOut(timeoutMs) ==
    Err("Error", <<"t", "i", "m", "e", "d", " ", "o", "u", "t", " ">>
                     \o <<ToString(timeoutMs)>> \o <<"m", "s">>)

\* withTimeout(operation, timeoutMs): the timer is armed and the operation
\* started with the signal.  reacts: whether this operation listens to it.
withTimeout(reacts, timeoutMs) ==
    /\ tmo.pc = "idle"
    /\ tmo' = [NoTimeout EXCEPT !.pc = "running", !.timeoutMs = timeoutMs, !.timer = "armed",
                                !.reacts = reacts]
    /\ UNCHANGED nonTimeoutVars

\* Time passes while the operation runs; an armed timer fires when due.
TimePasses ==
    /\ tmo.pc = "running"
    /\ tmo.now < MaxTime
    /\ tmo.timer = "armed" => tmo.now < tmo.timeoutMs
    /\ tmo' = [tmo EXCEPT !.now = @ + 1]
    /\ UNCHANGED nonTimeoutVars

\* The timer callback: controller.abort()
TimerFires ==
    /\ tmo.timer = "armed"
    /\ tmo.now >= tmo.timeoutMs
    /\ tmo' = [tmo EXCEPT !.timer = "fired", !.aborted = TRUE]
    /\ UNCHANGED nonTimeoutVars

\* clearTimeout(timeoutId)
Cleared(timer) == IF timer = "armed" THEN "cleared" ELSE timer

\* The operation resolves: the try block.  An operation that listens to the
\* signal does not resolve once aborted.
TimeoutOperationResolves(v) ==
    /\ tmo.pc = "running"
    /\ ~(tmo.reacts /\ tmo.aborted)
    /\ tmo' = [tmo EXCEPT !.pc = "done", !.timer = Cleared(@), !.kind = "return", !.val = v]
    /\ UNCHANGED nonTimeoutVars

\* The operation rejects: the catch block.  An operation that listens to the
\* signal rejects with an AbortError once aborted.
TimeoutOperationRejects(e) ==
    /\ tmo.pc = "running"
    /\ (tmo.reacts /\ tmo.aborted) <=> e.name = "AbortError"
    /\ tmo' = [tmo EXCEPT !.pc = "done", !.timer = Cleared(@), !.kind = "throw",
                          !.error = IF e.name = "AbortError" THEN TimedOut(tmo.timeoutMs) ELSE e]
    /\ UNCHANGED nonTimeoutVars

----------------------------------------------------------------------------
(* localStorage *)

\* String(value): the conversion localStorage.setItem applies to its value.
JSString(v) ==
    IF v.t = "string" THEN v
    ELSE IF v.t = "null" THEN Str(<<"n", "u", "l", "l">>)
    ELSE IF v.t = "undefined" THEN Str(<<"u", "n", "d", "e", "f", "i", "n", "e", "d">>)
    ELSE Str(<<"[", "o", "b", "j", "e", "c", "t", " ", "O", "b", "j", "e", "c", "t", "]">>)

LocalSet(store, k, v) ==
    [x \in DOMAIN store \cup {k} |-> IF x = k THEN JSString(v) ELSE store[x]]

LocalGet(store, k) == IF k \in DOMAIN store THEN store[k] ELSE Null

LocalRemove(store, k) == [x \in DOMAIN store \ {k} |-> store[x]]

----------------------------------------------------------------------------
(* GDriveStorage *)

ForbiddenChars == {"<", ">", ":", "\"", "/", "\\", "|", "?", "*"}

\* sanitizeFileName(key): each forbidden character becomes '_', then '.json'.
sanitizeFileName(key) ==
    [i \in 1..Len(key) |-> IF key[i] \in ForbiddenChars THEN "_" ELSE key[i]]
        \o <<".", "j", "s", "o", "n">>

\* The JSON envelope setItem writes, {key, value, timestamp}, as getItem reads
\* it back with JSON.parse; getItem reads nothing but its value.
FileContent(k, v) == [key |-> k, value |-> Wire(v)]

File(name, content) == [name |-> name, content |-> content]

MatchesMutNone(fs, fileName) == {}

\* The files findFile's query matches: those of the folder with that name.
Matches(fs, fileName) == {i \in 1..Len(fs) : fs[i].name = fileName}

\* The record of a completed call, with the call that completed before it.
DriveCompleted(op, k, v, kind, val, path, hadFile, hadLocal, failed) ==
    [op |-> op, key |-> k, value |-> v, kind |-> kind, val |-> val, path |-> path,
     hadFile |-> hadFile, hadLocal |-> hadLocal, failed |-> failed,
     after |-> [op |-> dlast.op, key |-> dlast.key, value |-> dlast.value,
                path |-> dlast.path]]

NoDriveCall ==
    [op |-> "none", key |-> NoKey, value |-> Undefined, kind |-> "none", val |-> Undefined,
     path |-> "none", hadFile |-> FALSE, hadLocal |-> FALSE, failed |-> "none",
     after |-> [op |-> "none", key |-> NoKey, value |-> Undefined, path |-> "none"]]

CanCallDrive == dcalls > 0

\* The cloud step of an operation that failed: the check of the initialized
\* flag ("init"), else the step the environment made fail, if any.
StepFailed(f) == IF ~drive.initialized THEN "init" ELSE f

TokenAfterMutForgets(f) == drive.accessToken

\* The lazy authentication at the head of setItem, getItem and removeItem:
\* the token after it.  authenticate caches the token when sign-in succeeds.
TokenAfter(f) == drive.accessToken \/ f # "auth"

\* init(clientId, apiKey, folderId): it loads the client library, sets the
\* flag, then finds or creates the folder; any failure makes it return false.
driveInit(f) ==
    /\ drive' = IF f = "load" THEN drive ELSE [drive EXCEPT !.initialized = TRUE]
    /\ dlast' = DriveCompleted("init", NoKey, Undefined, "return",
                               IF f = "none" THEN True ELSE False, "cloud", FALSE, FALSE, f)

\* The page calls init.
DriveInit(f) ==
    /\ CanCallDrive
    /\ dcalls' = dcalls - 1
    /\ driveInit(f)
    /\ UNCHANGED <<files, local, nonDriveVars>>

FallbackResultMutTrue == True

\* What setItem and removeItem return after their fallback: false.
FallbackResult == False

\* setItem(key, value).  f names the cloud step that fails, if any:
\* authenticate ("auth"), the query of findFile ("find", which findFile
\* swallows: it returns null), the create or update request ("write").
DriveSetItem(k, v, f) ==
    /\ CanCallDrive
    /\ dcalls' = dcalls - 1
    /\ f = "auth" => ~drive.accessToken
    /\ LET ms == Matches(files, sanitizeFileName(k))
           had == ms # {}
           hadL == k \in DOMAIN local
           fallback == /\ local' = LocalSet(local, k, v)
                       /\ dlast' = DriveCompleted("setItem", k, v, "return", FallbackResult, "local",
                                                  had, hadL, StepFailed(f))
                       /\ UNCHANGED files
       IN IF ~drive.initialized THEN fallback /\ UNCHANGED drive
          ELSE /\ drive' = [drive EXCEPT !.accessToken = TokenAfter(f)]
               /\ IF f \in {"auth", "write"} THEN fallback
                  ELSE /\ IF f = "find" \/ ms = {}
                          THEN files' = Append(files, File(sanitizeFileName(k), FileContent(k, v)))
                          ELSE \E m \in ms : files' = [files EXCEPT ![m].content = FileContent(k, v)]
                       /\ dlast' = DriveCompleted("setItem", k, v, "return", True, "cloud",
                                                  had, hadL, StepFailed(f))
                       /\ UNCHANGED local
    /\ UNCHANGED nonDriveVars

\* How getItem ends when findFile returns no file.
NotFoundResultMutLocal(store, k) == LocalGet(store, k)

NotFoundResult(store, k) == Null

\* getItem(key).  f: "auth", "find" as for setItem, or the download
\* ("download").
DriveGetItem(k, f) ==
    /\ CanCallDrive
    /\ dcalls' = dcalls - 1
    /\ f = "auth" => ~drive.accessToken
    /\ LET ms == Matches(files, sanitizeFileName(k))
           had == ms # {}
           hadL == k \in DOMAIN local
           fallback == dlast' = DriveCompleted("getItem", k, Undefined, "return",
                                               LocalGet(local, k), "local", had, hadL, StepFailed(f))
       IN IF ~drive.initialized THEN fallback /\ UNCHANGED drive
          ELSE /\ drive' = [drive EXCEPT !.accessToken = TokenAfter(f)]
               /\ IF f \in {"auth", "download"} THEN fallback
                  ELSE IF f = "find" \/ ms = {}
                  THEN dlast' = DriveCompleted("getItem", k, Undefined, "return",
                                               NotFoundResult(local, k), "cloud", had, hadL, StepFailed(f))
                  ELSE \E m \in ms :
                          dlast' = DriveCompleted("getItem", k, Undefined, "return",
                                                  files[m].content.value, "cloud", had, hadL, StepFailed(f))
    /\ UNCHANGED <<files, local, nonDriveVars>>

\* removeItem(key).  f: "auth", "find", or the delete request ("delete").
DriveRemoveItem(k, f) ==
    /\ CanCallDrive
    /\ dcalls' = dcalls - 1
    /\ f = "auth" => ~drive.accessToken
    /\ LET ms == Matches(files, sanitizeFileName(k))
           had == ms # {}
           hadL == k \in DOMAIN local
           fallback == /\ local' = LocalRemove(local, k)
                       /\ dlast' = DriveCompleted("removeItem", k, Undefined, "return",
                                                  FallbackResult, "local", had, hadL, StepFailed(f))
                       /\ UNCHANGED files
       IN IF ~drive.initialized THEN fallback /\ UNCHANGED drive
          ELSE /\ drive' = [drive EXCEPT !.accessToken = TokenAfter(f)]
               /\ IF f \in {"auth", "delete"} THEN fallback
                  ELSE /\ IF f = "find" \/ ms = {}
                          THEN UNCHANGED files
                          ELSE \E m \in ms :
                                  files' = [i \in 1..(Len(files) - 1) |->
                                               IF i < m THEN files[i] ELSE files[i + 1]]
                       /\ dlast' = DriveCompleted("removeItem", k, Undefined, "return", True,
                                                  "cloud", had, hadL, StepFailed(f))
                       /\ UNCHANGED local
    /\ UNCHANGED nonDriveVars

----------------------------------------------------------------------------
(* GASStorage.syncWithLocalStorage *)

\* A pass: its position; localKeys, the keys it enumerated; i, the index of
\* the key at hand; localData, the value read for it; syncCount; result.
\* History: atStart, the keys with the prefix whose value was not empty when
\* the pass began; turns, for each key handled, the value read at its turn
\* and the setItem call made for it.
NoSync ==
    [pc |-> "idle", localKeys |-> <<>>, i |-> 0, localData |-> Undefined, syncCount |-> 0,
     result |-> Undefined, atStart |-> {}, turns |-> <<>>]

Turn(key, localData, did, sentKey, sentValue) ==
    [key |-> key, localData |-> localData, did |-> did, sentKey |-> sentKey,
     sentValue |-> sentValue]

\* The orders in which localStorage.key(i) may enumerate the keys with the
\* prefix: the order of the keys of localStorage is the browser's.
LocalKeyOrders ==
    LET ks == {k \in DOMAIN local : k # <<>> /\ StartsWith(k, YouseiPrefix)}
        n == Cardinality(ks)
    IN {q \in [1..n -> ks] : \A a, b \in 1..n : q[a] = q[b] => a = b}

\* The head of syncWithLocalStorage: the check of the flag and the first
\* loop, which collects the keys.
startSync(order) ==
    sync' = IF ~gas.initialized
            THEN [NoSync EXCEPT !.pc = "done", !.result = False]
            ELSE [NoSync EXCEPT !.pc = "loop", !.localKeys = order, !.i = 1,
                                !.atStart = {order[j] : j \in
                                    {x \in 1..Len(order) : Truthy(LocalGet(local, order[x]))}}]

\* The pass after the setItem of one key has ended: a success is counted, a
\* failure is logged; the loop goes on with the next key either way.
AfterItemMutStops(s, done) ==
    IF done.kind = "return"
    THEN [s EXCEPT !.pc = "loop", !.i = @ + 1, !.syncCount = @ + 1,
                   !.turns = Append(@, Turn(s.localKeys[s.i], s.localData, "saved",
                                            done.key, done.value))]
    ELSE [s EXCEPT !.pc = "done", !.result = False,
                   !.turns = Append(@, Turn(s.localKeys[s.i], s.localData, "failed",
                                            done.key, done.value))]

AfterItem(s, done) ==
    [s EXCEPT !.pc = "loop", !.i = @ + 1,
              !.syncCount = IF done.kind = "return" THEN @ + 1 ELSE @,
              !.turns = Append(@, Turn(s.localKeys[s.i], s.localData,
                                       IF done.kind = "return" THEN "saved" ELSE "failed",
                                       done.key, done.value))]

\* One iteration of the second loop begins: the value of the key is read
\* now, and a value that is not empty is passed to setItem.  After the last
\* key the pass returns true.
SyncNext ==
    /\ sync.pc = "loop"
    /\ call.pc = "idle"
    /\ IF sync.i > Len(sync.localKeys)
       THEN /\ sync' = [sync EXCEPT !.pc = "done", !.result = True]
            /\ UNCHANGED <<call, hist, savedKeys>>
       ELSE LET key == sync.localKeys[sync.i]
                localData == LocalGet(local, key)
            IN IF Truthy(localData)
               THEN /\ save(key, localData)
                    /\ sync' = [sync EXCEPT !.pc = "await", !.localData = localData]
               ELSE /\ sync' = [sync EXCEPT !.i = @ + 1,
                                   !.turns = Append(@, Turn(key, localData, "skipped",
                                                            NoKey, Undefined))]
                    /\ UNCHANGED <<call, hist, savedKeys>>
    /\ UNCHANGED <<gas, budget, serverVars, driveVars, retry, tmo, passes,
                   conf, stored, timers, date, clast>>

\* The setItem the pass awaited has ended.
SyncResume ==
    /\ sync.pc = "await"
    /\ call.pc = "idle"
    /\ sync' = AfterItem(sync, hist[2])
    /\ UNCHANGED <<clientVars, serverVars, driveVars, retry, tmo, passes,
                   conf, stored, timers, date, clast>>

\* The page calls syncWithLocalStorage.
SyncStart(order) ==
    /\ sync.pc \in {"idle", "done"}
    /\ conf.pc = "idle"
    /\ CanCall
    /\ Spend("calls")
    /\ startSync(order)
    /\ UNCHANGED <<gas, call, hist, savedKeys, serverVars, driveVars, retry, tmo, passes,
                   conf, stored, timers, date, clast>>

----------------------------------------------------------------------------
(* The configuration managers: BaseConfig, GASConfig, GDriveConfig *)

Num(digits) == [t |-> "number", s |-> digits]

StoreKRB == <<"K", "R", "B", "0", "1">>

\* A config object is a function from its field names to JavaScript values;
\* reading a field it lacks gives undefined.
Field(config, f) == IF f \in DOMAIN config THEN config[f] ELSE Undefined

\* { ...a, ...b }
Merge(a, b) == [f \in DOMAIN a \cup DOMAIN b |-> IF f \in DOMAIN b THEN b[f] ELSE a[f]]

\* JSON.stringify(config), as JSON.parse reads it back: a field that holds
\* undefined is left out of the document.
Document(config) == [f \in {g \in DOMAIN config : config[g].t # "undefined"} |-> config[f]]

\* The entry of localStorage under the storage key.
NoEntry == [has |-> FALSE, doc |-> <<>>]
Entry(doc) == [has |-> TRUE, doc |-> doc]

GASDefaults ==
    [webAppUrl |-> Str(<<>>), storeId |-> Str(StoreKRB), enabled |-> False,
     autoSync |-> True, syncInterval |-> Num(<<"3", "0", "0", "0", "0", "0">>),
     lastSync |-> Null]

GDriveDefaults ==
    [clientId |-> Str(<<>>), apiKey |-> Str(<<>>), folderId |-> Str(<<>>),
     enabled |-> False, folderName |-> Str(<<"y", "o", "u", "s", "e", "i">>)]

\* The defaultConfig a BaseConfig is constructed with.
BaseDefaults == [enabled |-> False, mode |-> Str(<<"m">>)]

DefaultsOf(class) ==
    CASE class = "GASConfig" -> GASDefaults
      [] class = "GDriveConfig" -> GDriveDefaults
      [] OTHER -> BaseDefaults

\* loadConfig(): BaseConfig spreads the parsed document over the defaults;
\* GASConfig and GDriveConfig return the parsed document as it is.
loadConfig(class, entry) ==
    IF ~entry.has THEN DefaultsOf(class)
    ELSE IF class = "BaseConfig" THEN Merge(DefaultsOf(class), entry.doc)
    ELSE entry.doc

\* A manager: its class, whether it is constructed, this.config,
\* this.statusCheckInterval (0: null), the asynchronous method in progress
\* and what it will save, and the calls the page may still make.
NoConf ==
    [class |-> "none", built |-> FALSE, config |-> <<>>, statusCheckInterval |-> 0,
     pc |-> "idle", args |-> <<>>, left |-> 0, by |-> 0]

NoTimers == [active |-> {}, next |-> 1]

\* A completed call of the manager: how it ended, what it returned, and the
\* config, the entry and the timers it found; for enable, the arguments it
\* was to save, what the init of the backend did ("true", "false", "throw"),
\* and whether the write to localStorage threw.
ConfCompleted(op, kind, val, c, entry, tm) ==
    [op |-> op, kind |-> kind, val |-> val, config |-> c.config, entry |-> entry,
     timers |-> tm.active, args |-> <<>>, init |-> "none", full |-> FALSE, by |-> 0]

Enabled(op, val, c, entry, tm, args, ran, full) ==
    [ConfCompleted(op, "return", val, c, entry, tm) EXCEPT
        !.args = args, !.init = ran, !.full = full]

\* `if (success)` on what init returned.
SucceededMutAlways(returned) == TRUE

Succeeded(returned) == returned = True

NoConfCall == ConfCompleted("none", "none", Undefined, NoConf, NoEntry, NoTimers)

InitNoPage ==
    /\ passes = <<>>
    /\ sync = NoSync
    /\ conf = NoConf
    /\ stored = NoEntry
    /\ timers = NoTimers
    /\ date = 1
    /\ clast = NoConfCall

\* new Date().toISOString()
Stamp(n) == Str(<<<<"0", "1", "2", "3", "4", "5", "6", "7", "8", "9">>[n + 1]>>)

\* saveConfig(config): the merge into this.config.
Merged(c, patch) == [c EXCEPT !.config = Merge(@, patch)]

\* saveConfig(config): localStorage.setItem(storageKey, JSON.stringify(this.config));
\* full: the quota of localStorage is exceeded and setItem throws.
Persisted(c, entry, full) == IF full THEN entry ELSE Entry(Document(c.config))

\* BaseConfig.saveConfig catches what setItem throws; the saveConfig of the
\* other two lets it through.
SaveThrows(c, full) == full /\ c.class # "BaseConfig"

\* startAutoSync(): clears the timer it holds, then installs a new one when
\* the config is enabled with autoSync.  The result is the manager and the
\* timers after it.
Installs(c) == Truthy(Field(c.config, "enabled")) /\ Truthy(Field(c.config, "autoSync"))

startAutoSyncMutKeepsOld(c, tm) ==
    IF Installs(c)
    THEN [conf |-> [c EXCEPT !.statusCheckInterval = tm.next],
          timers |-> [active |-> tm.active \cup {tm.next}, next |-> tm.next + 1]]
    ELSE [conf |-> c, timers |-> tm]

startAutoSync(c, tm) ==
    LET left == IF c.statusCheckInterval # 0
                THEN tm.active \ {c.statusCheckInterval} ELSE tm.active
    IN IF Installs(c)
       THEN [conf |-> [c EXCEPT !.statusCheckInterval = tm.next],
             timers |-> [active |-> left \cup {tm.next}, next |-> tm.next + 1]]
       ELSE [conf |-> c, timers |-> [tm EXCEPT !.active = left]]

\* stopAutoSync()
stopAutoSyncMutKeepsTimer(c, tm) ==
    [conf |-> [c EXCEPT !.statusCheckInterval = 0], timers |-> tm]

stopAutoSync(c, tm) ==
    IF c.statusCheckInterval # 0
    THEN [conf |-> [c EXCEPT !.statusCheckInterval = 0],
          timers |-> [tm EXCEPT !.active = @ \ {c.statusCheckInterval}]]
    ELSE [conf |-> c, timers |-> tm]

\* The page may call a method of the manager.
CanConf == conf.built /\ conf.left > 0 /\ ~Running

Used(c) == [c EXCEPT !.left = @ - 1]

\* new BaseConfig(key, defaults), new GASConfig(), new GDriveConfig()
Construct ==
    /\ ~conf.built
    /\ conf' = [conf EXCEPT !.built = TRUE, !.config = loadConfig(conf.class, stored)]
    /\ clast' = ConfCompleted("new", "return", Undefined, conf, stored, timers)
    /\ UNCHANGED <<sync, stored, timers, date, nonPageVars>>

\* saveConfig(patch); BaseConfig.set(key, value) is saveConfig({[key]: value}).
saveConfig(patch, full) ==
    /\ CanConf
    /\ conf' = Used(Merged(conf, patch))
    /\ stored' = Persisted(conf', stored, full)
    /\ clast' = [ConfCompleted("saveConfig",
                               IF SaveThrows(conf, full) THEN "throw" ELSE "return",
                               Undefined, conf, stored, timers) EXCEPT !.full = full]
    /\ UNCHANGED <<sync, timers, date, nonPageVars>>

\* BaseConfig.enable(additionalConfig)
BaseEnable(additional, full) ==
    /\ CanConf
    /\ conf.class = "BaseConfig"
    /\ conf' = Used(Merged(conf, Merge(additional, [enabled |-> True])))
    /\ stored' = Persisted(conf', stored, full)
    /\ clast' = [ConfCompleted("enable", "return", Undefined, conf, stored, timers)
                    EXCEPT !.full = full]
    /\ UNCHANGED <<sync, timers, date, nonPageVars>>

\* BaseConfig.reset()
reset ==
    /\ CanConf
    /\ conf.class = "BaseConfig"
    /\ conf' = Used([conf EXCEPT !.config = DefaultsOf(conf.class)])
    /\ stored' = NoEntry
    /\ clast' = ConfCompleted("reset", "return", Undefined, conf, stored, timers)
    /\ UNCHANGED <<sync, timers, date, nonPageVars>>

\* disable(): saveConfig({enabled: false}); GASConfig then stops the timer.
disable(full) ==
    /\ CanConf
    /\ LET saved == Merged(conf, [enabled |-> False])
           after == IF conf.class = "GASConfig" /\ ~full
                    THEN stopAutoSync(saved, timers)
                    ELSE [conf |-> saved, timers |-> timers]
       IN /\ conf' = Used(after.conf)
          /\ timers' = after.timers
          /\ stored' = Persisted(saved, stored, full)
    /\ clast' = [ConfCompleted("disable",
                               IF SaveThrows(conf, full) THEN "throw" ELSE "return",
                               Undefined, conf, stored, timers) EXCEPT !.full = full]
    /\ UNCHANGED <<sync, date, nonPageVars>>

\* The page calls startAutoSync().
StartAutoSync ==
    /\ CanConf
    /\ conf.class = "GASConfig"
    /\ conf' = Used(startAutoSync(conf, timers).conf)
    /\ timers' = startAutoSync(conf, timers).timers
    /\ clast' = ConfCompleted("startAutoSync", "return", Undefined, conf, stored, timers)
    /\ UNCHANGED <<sync, stored, date, nonPageVars>>

\* The page calls stopAutoSync().
StopAutoSync ==
    /\ CanConf
    /\ conf.class = "GASConfig"
    /\ conf' = Used(stopAutoSync(conf, timers).conf)
    /\ timers' = stopAutoSync(conf, timers).timers
    /\ clast' = ConfCompleted("stopAutoSync", "return", Undefined, conf, stored, timers)
    /\ UNCHANGED <<sync, stored, date, nonPageVars>>

\* GASConfig.enable(webAppUrl, storeId) up to its await: it calls init.
\* present: window.gasStorage exists; without it the call throws a TypeError,
\* which enable catches.
EnableStart(url, store, present) ==
    /\ CanConf
    /\ conf.class = "GASConfig"
    /\ conf.pc = "idle"
    /\ call.pc = "idle"
    /\ IF present
       THEN /\ init(url, store)
            /\ conf' = Used([conf EXCEPT !.pc = "enable",
                                !.args = [webAppUrl |-> Str(url), storeId |-> Str(store)]])
            /\ UNCHANGED clast
       ELSE /\ conf' = Used(conf)
            /\ clast' = Enabled("enable", False, conf, stored, timers,
                                [webAppUrl |-> Str(url), storeId |-> Str(store)],
                                "throw", FALSE)
            /\ UNCHANGED <<gas, call, hist, savedKeys>>
    /\ UNCHANGED <<budget, sync, stored, timers, date, serverVars, driveVars, retry, tmo, passes>>

\* GASConfig.enable after init has returned.
EnableFinish(full) ==
    /\ conf.pc = "enable"
    /\ call.pc = "idle"
    /\ LET success == Succeeded(hist[2].val)
           ran == IF hist[2].val = True THEN "true" ELSE "false"
           saved == Merged(conf, Merge(conf.args, [enabled |-> True, lastSync |-> Stamp(date)]))
           after == IF Truthy(Field(saved.config, "autoSync"))
                    THEN startAutoSync(saved, timers)
                    ELSE [conf |-> saved, timers |-> timers]
           idle(c) == [c EXCEPT !.pc = "idle", !.args = <<>>]
       IN IF ~success
          THEN /\ conf' = idle(conf)
               /\ clast' = Enabled("enable", False, conf, stored, timers, conf.args,
                                   ran, FALSE)
               /\ UNCHANGED <<stored, timers, date>>
          ELSE IF full
          THEN /\ conf' = idle(saved)
               /\ clast' = Enabled("enable", False, conf, stored, timers, conf.args,
                                   ran, TRUE)
               /\ date' = date + 1
               /\ UNCHANGED <<stored, timers>>
          ELSE /\ conf' = idle(after.conf)
               /\ timers' = after.timers
               /\ stored' = Persisted(saved, stored, FALSE)
               /\ clast' = Enabled("enable", True, conf, stored, timers, conf.args,
                                   ran, FALSE)
               /\ date' = date + 1
    /\ UNCHANGED <<sync, nonPageVars>>

\* GDriveConfig.enable(clientId, apiKey, folderId): init of the storage, f
\* the step of it that fails, then the save.
DriveEnable(credentials, f, present, full) ==
    /\ CanConf
    /\ conf.class = "GDriveConfig"
    /\ LET returned == IF f = "none" THEN True ELSE False
           success == present /\ Succeeded(returned)
           saved == Merged(conf, Merge(credentials, [enabled |-> True]))
       IN /\ IF present THEN driveInit(f) ELSE UNCHANGED <<drive, dlast>>
          /\ conf' = Used(IF success THEN saved ELSE conf)
          /\ stored' = IF success THEN Persisted(saved, stored, full) ELSE stored
          /\ clast' = Enabled("enable", IF success /\ ~full THEN True ELSE False,
                              conf, stored, timers, credentials,
                              IF ~present THEN "throw"
                              ELSE IF returned = True THEN "true" ELSE "false",
                              success /\ full)
    /\ UNCHANGED <<sync, timers, date, files, local, dcalls, serverVars, clientVars, retry, tmo, passes>>

\* isConfigured()
isConfigured(c) == Truthy(Field(c.config, "enabled")) /\ Truthy(Field(c.config, "webAppUrl"))

\* init(webAppUrl, storeId = 'KRB01'): the default stands in for undefined.
StoreArgument(v) == IF v.t = "undefined" THEN StoreKRB ELSE v.s

\* GASConfig.autoInit() up to its await.
AutoInitStart ==
    /\ CanConf
    /\ conf.class = "GASConfig"
    /\ conf.pc = "idle"
    /\ call.pc = "idle"
    /\ IF isConfigured(conf)
       THEN /\ init(conf.config.webAppUrl.s, StoreArgument(Field(conf.config, "storeId")))
            /\ conf' = Used([conf EXCEPT !.pc = "autoInit"])
            /\ UNCHANGED clast
       ELSE /\ conf' = Used(conf)
            /\ clast' = ConfCompleted("autoInit", "return", False, conf, stored, timers)
            /\ UNCHANGED <<gas, call, hist, savedKeys>>
    /\ UNCHANGED <<budget, sync, stored, timers, date, serverVars, driveVars, retry, tmo, passes>>

\* GASConfig.autoInit() after init has returned.
AutoInitFinish ==
    /\ conf.pc = "autoInit"
    /\ call.pc = "idle"
    /\ LET success == Succeeded(hist[2].val)
           after == IF success /\ Truthy(Field(conf.config, "autoSync"))
                    THEN startAutoSync(conf, timers)
                    ELSE [conf |-> conf, timers |-> timers]
       IN /\ conf' = [after.conf EXCEPT !.pc = "idle"]
          /\ timers' = after.timers
          /\ clast' = ConfCompleted("autoInit", "return", hist[2].val, conf, stored, timers)
    /\ UNCHANGED <<sync, stored, date, nonPageVars>>

TimerCallbackMutNoCatch(kind) == kind

\* The callback startAutoSync gives to setInterval: it awaits performAutoSync
\* in a try block and logs what it catches, so it completes however
\* performAutoSync ended.
TimerCallback(kind) == "return"

\* How a run of performAutoSync ends for the one who started it: the timer
\* (by # 0) through its callback, performManualSync (by = 0) directly.
EndedFor(by, kind) == IF by = 0 THEN kind ELSE TimerCallback(kind)

\* GASConfig.performAutoSync() up to its await; by: the timer that fired, or
\* 0 for performManualSync(), which throws when the config is not enabled.
\* present: window.gasStorage exists; reading isConnected off it throws when
\* it does not.
performAutoSync(by, order, present) ==
    /\ CanConf
    /\ conf.class = "GASConfig"
    /\ conf.pc = "idle"
    /\ call.pc = "idle"
    /\ sync.pc \in {"idle", "done"}
    /\ by = 0 \/ by \in timers.active
    /\ LET enabled == Truthy(Field(conf.config, "enabled"))
           ended(kind, val) ==
               [ConfCompleted("performAutoSync", EndedFor(by, kind), val, conf, stored, timers)
                   EXCEPT !.by = by]
       IN IF ~enabled
          THEN /\ conf' = Used(conf)
               /\ clast' = IF by = 0 THEN ended("throw", Undefined) ELSE ended("return", False)
               /\ UNCHANGED sync
          ELSE IF ~present
          THEN /\ conf' = Used(conf)
               /\ clast' = ended("throw", Undefined)
               /\ UNCHANGED sync
          ELSE IF ~gas.initialized
          THEN /\ conf' = Used(conf)
               /\ clast' = ended("return", False)
               /\ UNCHANGED sync
          ELSE /\ startSync(order)
               /\ conf' = Used([conf EXCEPT !.pc = "autosync", !.by = by])
               /\ UNCHANGED clast
    /\ UNCHANGED <<stored, timers, date, nonPageVars>>

\* GASConfig.performAutoSync() after syncWithLocalStorage has returned; its
\* catch answers false when saveConfig throws.
PerformFinish(full) ==
    /\ conf.pc = "autosync"
    /\ sync.pc = "done"
    /\ LET success == sync.result = True
           saved == Merged(conf, [lastSync |-> Stamp(date)])
           idle(c) == [c EXCEPT !.pc = "idle", !.by = 0]
           ended(val) ==
               [ConfCompleted("performAutoSync", EndedFor(conf.by, "return"), val,
                              conf, stored, timers) EXCEPT !.by = conf.by, !.full = success /\ full]
       IN IF ~success
          THEN /\ conf' = idle(conf)
               /\ clast' = ended(False)
               /\ UNCHANGED <<stored, date>>
          ELSE /\ conf' = idle(saved)
               /\ stored' = Persisted(saved, stored, full)
               /\ date' = date + 1
               /\ clast' = ended(IF full THEN False ELSE True)
    /\ UNCHANGED <<sync, timers, nonPageVars>>

----------------------------------------------------------------------------
(* The remote-HTTP backend used by one client *)

ClientKeys == {KeyA, KeySA}
ClientValues == {ValX, ValObj}
ClientPrefixes == {<<>>, KeySS}

AllSheets == {StoreA, DefaultStore}

\* A new spreadsheet and the service with its execution slots idle.
InitService(slots) ==
    /\ sheets = <<>>
    /\ clock = 1
    /\ handlers = [h \in slots |-> IdleHandler]
    /\ insOrder = [n \in AllSheets |-> <<>>]
    /\ arrived = 0

\* new GASStorage()
InitGas(nCalls, nFaults) ==
    /\ gas = [initialized |-> FALSE, webAppUrl |-> UrlNone, storeId |-> NoStore]
    /\ call = NoCall
    /\ hist = <<NoCompleted, NoCompleted>>
    /\ savedKeys = {}
    /\ budget = [calls |-> nCalls, faults |-> nFaults]

\* new GDriveStorage(), an empty folder, and the localStorage of the page,
\* which the ledger itself may have written already.
InitDrive(nCalls, stores) ==
    /\ drive = [initialized |-> FALSE, accessToken |-> FALSE]
    /\ files = <<>>
    /\ local \in stores
    /\ dlast = NoDriveCall
    /\ dcalls = nCalls

InitClientWith(nCalls, nFaults) ==
    /\ InitService({1})
    /\ InitGas(nCalls, nFaults)
    /\ InitDrive(0, {<<>>})
    /\ retry = NoRetry
    /\ tmo = NoTimeout
    /\ InitNoPage

NextClient ==
    \/ \E url \in {UrlService} : GasInit(url, StoreA)
    \/ \E k \in ClientKeys, v \in ClientValues : setItem(k, v)
    \/ \E k \in ClientKeys : getItem(k)
    \/ \E k \in ClientKeys : removeItem(k)
    \/ delete(KeyA)
    \/ \E pre \in ClientPrefixes : getAllItems(pre)
    \/ Deliver
    \/ \E e \in TransportErrors : FetchFault(e)
    \/ \E e \in TransportErrors : ResponseFault(e)
    \/ Receive
    \/ Discard
    \/ HandlerWrite(1) /\ UNCHANGED <<clientVars, nonGasVars>>

SpecClient == InitClientWith(MaxCalls, MaxFaults) /\ [][NextClient]_vars

----------------------------------------------------------------------------
(* The service under concurrent raw requests (several clients) *)

Slots == 1..MaxHandlers

RawRequests ==
    {Params("setItem", k, v, s, t, <<>>) :
        k \in {NoKey, KeyA, KeyAB}, v \in {Undefined, ValX, ValY},
        s \in {NoStore, StoreA}, t \in {0}}
    \cup {Params(a, k, Undefined, s, 0, <<>>) :
        a \in {"getItem", "removeItem"}, k \in {NoKey, KeyA, KeyAB}, s \in {NoStore, StoreA}}
    \cup {Params("getAllItems", NoKey, Undefined, s, 0, pre) :
        s \in {NoStore, StoreA}, pre \in {<<>>, KeyA}}
    \cup {Params(a, NoKey, Undefined, NoStore, 0, <<>>) : a \in {"", "ping", "bogus"}}

InitServer ==
    /\ InitService(Slots)
    /\ InitGas(0, 0)
    /\ InitDrive(0, {<<>>})
    /\ retry = NoRetry
    /\ tmo = NoTimeout
    /\ InitNoPage

\* A request of some client reaches the service.
Arrive(h, p) ==
    /\ arrived < MaxRequests
    /\ \A g \in Slots : g < h => handlers[g].st # "idle"
    /\ HandlerStart(h, p)
    /\ UNCHANGED <<clientVars, nonGasVars>>

\* The envelope of a finished execution is returned to its client.
Reply(h) ==
    /\ handlers[h].st = "done"
    /\ handlers' = [handlers EXCEPT ![h] = IdleHandler]
    /\ UNCHANGED <<sheets, clock, insOrder, arrived, clientVars, nonGasVars>>

NextServer ==
    \/ \E h \in Slots, p \in RawRequests : Arrive(h, p)
    \/ \E h \in Slots : HandlerWrite(h) /\ UNCHANGED <<clientVars, nonGasVars>>
    \/ \E h \in Slots : Reply(h)
    \/ Tick /\ UNCHANGED <<clientVars, nonGasVars>>

SpecServer == InitServer /\ [][NextServer]_vars

----------------------------------------------------------------------------
(* makeRequest under repeated transport faults; init with any URL *)

\* The spreadsheet is new, or an earlier session has left a record in it.
InitRequest ==
    /\ \E earlier \in BOOLEAN :
          /\ sheets = IF earlier
                      THEN [getOrCreateSheet(<<>>, StoreA) EXCEPT
                               ![StoreA] = Append(@, Row(KeySA, ValX, 1, 1))]
                      ELSE <<>>
          /\ insOrder = [n \in AllSheets |->
                            IF earlier /\ n = StoreA THEN <<KeySA>> ELSE <<>>]
    /\ clock = 1
    /\ handlers = [h \in {1} |-> IdleHandler]
    /\ arrived = 0
    /\ InitGas(MaxRequestCalls, RetryCount + 1)
    /\ InitDrive(0, {<<>>})
    /\ retry = NoRetry
    /\ tmo = NoTimeout
    /\ InitNoPage

NextRequest ==
    \/ \E url \in {UrlNone, UrlService, UrlOther} : GasInit(url, StoreA)
    \/ \E v \in {ValX, Null, Undefined} : setItem(KeyA, v)
    \/ getItem(KeyA)
    \/ Deliver
    \/ DeliverOther
    \/ \E e \in TransportErrors : FetchFault(e)
    \/ \E e \in TransportErrors : ResponseFault(e)
    \/ Receive
    \/ Discard
    \/ HandlerWrite(1) /\ UNCHANGED <<clientVars, nonGasVars>>
    \/ DeliverThrows

SpecRequest == InitRequest /\ [][NextRequest]_vars

----------------------------------------------------------------------------
(* The helpers of BaseStorage on their own *)

InitHelpers == InitClientWith(0, 0)

NextRetry ==
    \/ \E n \in 0..MaxRetries : withRetry(n)
    \/ \E v \in OpResults : RetryOperationResolves(v)
    \/ \E e \in OpErrors : RetryOperationRejects(e)
    \/ RetrySleepEnds

SpecRetry == InitHelpers /\ [][NextRetry]_vars

NextTimeout ==
    \/ \E r \in BOOLEAN, t \in 1..MaxTimeout : withTimeout(r, t)
    \/ TimePasses
    \/ TimerFires
    \/ \E v \in OpResults : TimeoutOperationResolves(v)
    \/ \E e \in OpErrors \cup {AbortError} : TimeoutOperationRejects(e)

SpecTimeout == InitHelpers /\ [][NextTimeout]_vars

----------------------------------------------------------------------------
(* load on both backends *)

DriveKeys == {<<"a", ":", "b">>, <<"a", "_", "b">>, <<"c">>}

DriveFaults == {"none", "auth", "find"}

InitLoad ==
    /\ InitService({1})
    /\ InitGas(MaxLoadCalls, MaxFaults)
    /\ InitDrive(MaxDriveCalls, {<<>>} \cup {[x \in {k} |-> ValX] : k \in DriveKeys})
    /\ retry = NoRetry
    /\ tmo = NoTimeout
    /\ InitNoPage

NextLoad ==
    \/ GasInit(UrlService, StoreA)
    \/ setItem(KeyA, ValX)
    \/ \E k \in ClientKeys : getItem(k)
    \/ Deliver
    \/ FetchFault(HttpError)
    \/ ResponseFault(AbortDOMException)
    \/ Receive
    \/ Discard
    \/ HandlerWrite(1) /\ UNCHANGED <<clientVars, nonGasVars>>
    \/ \E f \in {"none", "load", "folder"} : DriveInit(f)
    \/ \E k \in DriveKeys, f \in DriveFaults \cup {"write"} : DriveSetItem(k, ValObj, f)
    \/ \E k \in DriveKeys, f \in DriveFaults \cup {"download"} : DriveGetItem(k, f)

SpecLoad == InitLoad /\ [][NextLoad]_vars

----------------------------------------------------------------------------
(* Listing the store: writes, removals and getAllItems over a sound transport *)

InitList == InitClientWith(MaxListCalls, 0)

NextList ==
    \/ GasInit(UrlService, StoreA)
    \/ \E k \in ClientKeys, v \in ClientValues : setItem(k, v)
    \/ \E k \in ClientKeys : removeItem(k)
    \/ \E pre \in ClientPrefixes : getAllItems(pre)
    \/ Deliver
    \/ Receive
    \/ HandlerWrite(1) /\ UNCHANGED <<clientVars, nonGasVars>>

SpecList == InitList /\ [][NextList]_vars

----------------------------------------------------------------------------
(* The sync pass: GASConfig, its timer, and the page writing localStorage *)

KeyY1 == YouseiPrefix \o <<"1">>
KeyY2 == YouseiPrefix \o <<"2">>
KeyConfig == <<"g", "a", "s", "C", "o", "n", "f", "i", "g">>

\* localStorage when the page opens: two records of the ledger, one of them
\* perhaps empty, beside an entry of another kind.
SyncStores ==
    {[k \in {KeyY1, KeyY2, KeyConfig} |-> IF k = KeyY2 THEN v ELSE ValX] :
        v \in {ValY, Str(<<>>)}}

InitSync ==
    /\ InitService({1})
    /\ InitGas(MaxSyncCalls, MaxSyncFaults)
    /\ InitDrive(MaxSyncRemovals, SyncStores)
    /\ retry = NoRetry
    /\ tmo = NoTimeout
    /\ sync = NoSync
    /\ conf = [NoConf EXCEPT !.class = "GASConfig", !.left = MaxSyncConfCalls]
    /\ stored = NoEntry
    /\ timers = NoTimers
    /\ date = 1
    /\ clast = NoConfCall
    /\ passes = <<>>

NextSync ==
    \/ Construct
    \/ EnableStart(UrlService, StoreA, TRUE)
    \/ EnableFinish(FALSE)
    \/ \E by \in {0} \cup timers.active, order \in LocalKeyOrders : performAutoSync(by, order, TRUE)
    \/ PerformFinish(FALSE)
    \/ \E order \in LocalKeyOrders : SyncStart(order)
    \/ SyncNext
    \/ SyncResume
    \/ Deliver
    \/ DeliverThrows
    \/ FetchFault(HttpError)
    \/ Receive
    \/ HandlerWrite(1) /\ UNCHANGED <<clientVars, nonGasVars>>
    \/ \E k \in {KeyY1, KeyY2} : ~Running /\ DriveRemoveItem(k, "none")

SpecSync == InitSync /\ [][NextSync]_vars

----------------------------------------------------------------------------
(* The configuration managers and the timer of GASConfig *)

ConfClasses == {"BaseConfig", "GASConfig", "GDriveConfig"}

\* What localStorage may hold under the storage key when the page opens:
\* nothing, a document with one field, or the document of an enabled config.
Entries(class) ==
    {NoEntry, Entry([enabled |-> True])}
    \cup IF class = "GASConfig"
         THEN {Entry(Merge(GASDefaults, [enabled |-> True, webAppUrl |-> Str(UrlService),
                                         storeId |-> Str(StoreA)]))}
         ELSE {}

\* Arguments of saveConfig and of BaseConfig.set.
Patches(class) ==
    CASE class = "GASConfig" ->
            {[autoSync |-> False], [autoSync |-> True, syncInterval |-> Num(<<"6">>)]}
      [] class = "GDriveConfig" -> {[folderName |-> Str(<<"f">>)]}
      [] OTHER -> {[mode |-> Str(<<"n">>)], [mode |-> Undefined]}

Credentials == [clientId |-> Str(<<"c">>), apiKey |-> Str(<<"k">>), folderId |-> Null]

InitConfig ==
    /\ InitService({1})
    /\ InitGas(0, MaxFaults)
    /\ InitDrive(0, {<<>>})
    /\ retry = NoRetry
    /\ tmo = NoTimeout
    /\ sync = NoSync
    /\ \E class \in ConfClasses :
          /\ conf = [NoConf EXCEPT !.class = class, !.left = MaxConfCalls]
          /\ stored \in Entries(class)
    /\ timers = NoTimers
    /\ date = 1
    /\ clast = NoConfCall
    /\ passes = <<>>

NextConfig ==
    \/ Construct
    \/ \E patch \in Patches(conf.class), full \in BOOLEAN : saveConfig(patch, full)
    \/ \E full \in BOOLEAN : BaseEnable([mode |-> Str(<<"n">>)], full)
    \/ reset
    \/ \E full \in BOOLEAN : disable(full)
    \/ StartAutoSync
    \/ StopAutoSync
    \/ \E url \in {UrlNone, UrlService}, present \in BOOLEAN : EnableStart(url, StoreA, present)
    \/ \E full \in BOOLEAN : EnableFinish(full)
    \/ \E f \in {"none", "load", "folder"}, present, full \in BOOLEAN :
          DriveEnable(Credentials, f, present, full)
    \/ AutoInitStart
    \/ AutoInitFinish
    \/ Deliver
    \/ FetchFault(HttpError)
    \/ Receive

SpecConfig == InitConfig /\ [][NextConfig]_vars

----------------------------------------------------------------------------
(* getDateRange over a sheet written in any order *)

Jan01 == <<"2", "0", "2", "4", "-", "0", "1", "-", "0", "1">>
Jan05 == <<"2", "0", "2", "4", "-", "0", "1", "-", "0", "5">>
Jan10 == <<"2", "0", "2", "4", "-", "0", "1", "-", "1", "0">>
Jan31 == <<"2", "0", "2", "4", "-", "0", "1", "-", "3", "1">>
Feb01 == <<"2", "0", "2", "4", "-", "0", "2", "-", "0", "1">>

\* yousei:<store>:<date>
DateKey(store, dateStr) == YouseiPrefix \o store \o <<":">> \o dateStr

\* Keys of the convention, and keys outside it: one without a date, one
\* whose third part is no date, one without the prefix.
RangeKeys ==
    {DateKey(StoreA, d) : d \in {Jan05, Jan10, Feb01}}
    \cup {YouseiPrefix \o StoreA, DateKey(StoreA, <<"x">>), KeyA}

Ranges == {<<Jan01, Jan31>>, <<Jan05, Jan10>>, <<Jan10, Jan05>>}

RangeRequests ==
    {Params("setItem", k, ValX, StoreA, 0, <<>>) : k \in RangeKeys}
    \cup {RangeParams(StoreA, r[1], r[2]) : r \in Ranges}

InitRange ==
    /\ InitService({1})
    /\ InitGas(0, 0)
    /\ InitDrive(0, {<<>>})
    /\ retry = NoRetry
    /\ tmo = NoTimeout
    /\ InitNoPage

\* A request reaches the service, after the one before it has been answered.
ArriveRange(p) ==
    /\ arrived < MaxRangeRequests
    /\ HandlerStart(1, p)
    /\ UNCHANGED <<clientVars, nonGasVars>>

NextRange ==
    \/ \E p \in RangeRequests : ArriveRange(p)
    \/ HandlerWrite(1) /\ UNCHANGED <<clientVars, nonGasVars>>
    \/ Reply(1)

SpecRange == InitRange /\ [][NextRange]_vars

----------------------------------------------------------------------------
(* C2 *)

\* C2: uniqueness invariant of the remote table: in every reachable state,
\* also when setItem and removeItem executions interleave between their read
\* of the rows and their write, each store's sheet holds at most one data row
\* per key.
C2_UniqueKeyPerSheet ==
    \A n \in DOMAIN sheets :
        \A i, j \in 2..Len(sheets[n]) :
            (i # j /\ sheets[n][i].key # NoKey) => sheets[n][i].key # sheets[n][j].key

----------------------------------------------------------------------------
(* C1, C3, C5: the remote-HTTP backend through its own methods *)

LastCall == hist[2]
PrevCall == hist[1]

\* C1: round trip on the remote-HTTP backend: after save(k, v) has returned
\* true, load(k) on the same storeId, answered by the service, returns a value
\* deep-equal to v, for a string v and for a non-string JSON value v.
C1_SaveThenLoadReturnsValue ==
    (/\ PrevCall.op = "setItem" /\ PrevCall.kind = "return"
     /\ LastCall.op = "getItem" /\ LastCall.status # "none"
     /\ LastCall.key = PrevCall.key /\ LastCall.store = PrevCall.store)
    => LastCall.val = PrevCall.value

\* C3: delete then load on the remote-HTTP backend: for a key k stored before
\* with save(k, v), once the delete operation for k (delete / removeItem) has
\* completed with success, load(k) returns null.
C3_RemoveThenLoadReturnsNull ==
    (/\ PrevCall.op \in {"removeItem", "delete"} /\ PrevCall.kind = "return"
     /\ <<PrevCall.store, PrevCall.key>> \in savedKeys
     /\ LastCall.op = "getItem" /\ LastCall.status # "none"
     /\ LastCall.key = PrevCall.key /\ LastCall.store = PrevCall.store)
    => LastCall.val = Null

KeysOfRows(rows) == [i \in 1..(Len(rows) - 1) |-> rows[i + 1].key]

\* C5: getAllItems(prefix) returns exactly the records of the store whose key
\* starts with prefix (all of them for the empty prefix, none for an empty
\* store), in row order; and the row order is the order of first insertion: an
\* overwrite keeps the key's place, a key deleted and inserted again is last.
C5_ListIsPrefixFilterInInsertionOrder ==
    /\ \A n \in DOMAIN sheets : KeysOfRows(sheets[n]) = insOrder[n]
    /\ (LastCall.op = "getAllItems" /\ LastCall.status = "success" /\ call.pc = "idle")
       => LastCall.items =
             SelectSeq(Tail(sheets[SheetNameOf(LastCall.store)]),
                       LAMBDA r : StartsWith(r.key, LastCall.key))

\* A list taken after a successful removeItem returns a proper, non-empty
\* part of the rows left.
C5_Witness ==
    /\ PrevCall.op = "removeItem" /\ PrevCall.kind = "return"
    /\ LastCall.op = "getAllItems" /\ LastCall.status = "success"
    /\ LastCall.key # <<>>
    /\ Len(LastCall.items) >= 1
    /\ call.pc = "idle"

----------------------------------------------------------------------------
(* C4 *)

RangeOf(seq) == {seq[i] : i \in 1..Len(seq)}

\* C4: load on a key that was never written returns null and never throws,
\* on both backends: GASStorage.getItem when the store's sheet has never held
\* a row for the storage key (the service answers not_found, or no answer
\* comes at all), and GDriveStorage.getItem when no file with the sanitized
\* name exists (and, where it falls back to localStorage, that holds no entry
\* for the key either).
C4_LoadOfUnwrittenKeyIsNull ==
    /\ LastCall.op = "getItem" =>
          /\ LastCall.kind = "return"
          /\ generateKey(LastCall.store, LastCall.key, <<>>)
                 \notin RangeOf(insOrder[SheetNameOf(LastCall.store)])
             => LastCall.val = Null
    /\ dlast.op = "getItem" =>
          /\ dlast.kind = "return"
          /\ (~dlast.hadFile /\ (dlast.path = "cloud" \/ ~dlast.hadLocal))
             => dlast.val = Null

C4_Witness ==
    /\ LastCall.op = "getItem" /\ LastCall.status = "not_found" /\ LastCall.val = Null
    /\ <<StoreA, KeyA>> \in savedKeys
    /\ dlast.op = "getItem" /\ dlast.path = "cloud" /\ dlast.val = Null
    /\ ~dlast.hadFile /\ dlast.hadLocal /\ Len(files) > 0

----------------------------------------------------------------------------
(* C6, C7 *)

\* C6: outcome of withRetry(operation, maxRetries): the operation is invoked
\* again until its first success, at most maxRetries + 1 times; when it has
\* failed n <= maxRetries times and then succeeds, withRetry returns (after
\* n + 1 invocations); when it has failed maxRetries + 1 times, withRetry
\* throws the error of the last attempt after exactly maxRetries + 1
\* invocations.
C6_RetryOutcome ==
    /\ retry.invoked <= retry.maxRetries + 1
    /\ retry.pc \in {"call", "sleep"} =>
          /\ retry.invoked = Len(retry.errs)
          /\ Len(retry.errs) <= retry.maxRetries
    /\ (retry.pc = "done" /\ retry.kind = "return") =>
          /\ Len(retry.errs) <= retry.maxRetries
          /\ retry.invoked = Len(retry.errs) + 1
          /\ retry.val \in OpResults
    /\ (retry.pc = "done" /\ retry.kind = "throw") =>
          /\ Len(retry.errs) = retry.maxRetries + 1
          /\ retry.invoked = retry.maxRetries + 1
          /\ retry.error = retry.errs[Len(retry.errs)]

C6_Witness ==
    /\ retry.pc = "done" /\ retry.kind = "throw"
    /\ retry.maxRetries = RetryCount /\ retry.invoked = RetryCount + 1
    /\ retry.errs[1] # retry.errs[RetryCount + 1]

RECURSIVE SumSeq(_)
SumSeq(seq) == IF seq = <<>> THEN 0 ELSE seq[1] + SumSeq(Tail(seq))

\* C7: delays of withRetry: the delay slept after failed attempt i (0-based)
\* is min(1000 * 2^i, 5000) ms; no delay follows the final attempt; a fully
\* exhausted withRetry has slept maxRetries delays, 7000 ms in all for the
\* default maxRetries = 3.
C7_RetryDelays ==
    /\ \A i \in 1..Len(retry.slept) : retry.slept[i] = Min(1000 * Pow2(i - 1), 5000)
    /\ Len(retry.slept) <= retry.maxRetries
    /\ (retry.pc = "done" /\ retry.kind = "return") => Len(retry.slept) = Len(retry.errs)
    /\ (retry.pc = "done" /\ retry.kind = "throw") =>
          /\ Len(retry.slept) = retry.maxRetries
          /\ retry.maxRetries = RetryCount => SumSeq(retry.slept) = 7000

C7_Witness ==
    /\ retry.pc = "done" /\ retry.kind = "throw"
    /\ retry.maxRetries = 4
    /\ retry.slept = <<1000, 2000, 4000, 5000>>

----------------------------------------------------------------------------
(* C8 *)

\* C8: timeout wrapper: when the operation has not completed by the time
\* timeoutMs has elapsed and the timer has fired, withTimeout fails with the
\* timeout error that carries timeoutMs, whether or not the operation reacts
\* to the abort signal.
C8_TimeoutFailsUnfinishedOperation ==
    (tmo.pc = "done" /\ tmo.timer = "fired")
    => (tmo.kind = "throw" /\ tmo.error = TimedOut(tmo.timeoutMs))

----------------------------------------------------------------------------
(* C9, C10 *)

TimeoutClass == {AbortError, AbortDOMException}
NetworkClass == {FetchNetworkError, FetchFailedError}
OtherClass == {HttpError, JsonError}

\* C9: retry policy of makeRequest: a request that fails by timeout or with a
\* network-class error is retried, up to 3 attempts, with a delay of
\* min(1000 * 2^attempt, 5000) ms between attempts, then the last error
\* propagates; a failure of any other class propagates after exactly one
\* request.
C9_RequestRetriedWithBackoff ==
    (LastCall.op # "none" /\ LastCall.status = "none" /\ LastCall.errs # <<>>) =>
        /\ \A i \in 1..Len(LastCall.slept) :
              LastCall.slept[i] = Min(1000 * Pow2(i - 1), 5000)
        /\ LastCall.errs[Len(LastCall.errs)] \in TimeoutClass \cup NetworkClass
           => LastCall.sent = 3
        /\ LastCall.errs[1] \in OtherClass => LastCall.sent = 1

\* C10: init never throws on a connectivity failure: it returns true, having
\* set initialized, exactly when the ping was answered with status success;
\* otherwise (error envelope, transport failure, timeout, missing URL) it
\* returns false and leaves initialized as it was.
C10_InitReturnsPingOutcome ==
    LastCall.op = "init" =>
        /\ LastCall.kind = "return"
        /\ LastCall.val \in {True, False}
        /\ LastCall.val = True <=> LastCall.status = "success"
        /\ gas.initialized <=> (LastCall.val = True \/ LastCall.was)

C10_Witness ==
    /\ PrevCall.op = "init" /\ PrevCall.val = True /\ ~PrevCall.was
    /\ LastCall.op = "init" /\ LastCall.val = False /\ LastCall.sent = RetryCount + 1
    /\ gas.initialized

----------------------------------------------------------------------------
(* C11, C12, C13 *)

\* C11: GASStorage.getItem is fail-soft: it never throws, and whenever the
\* envelope status is not success (backend not initialized, transport
\* failure after the retries, status error, status not_found) it returns
\* null; so it returns a non-null value only on status success.
C11_GetItemFailSoft ==
    LastCall.op = "getItem" =>
        /\ LastCall.kind = "return"
        /\ LastCall.status # "success" => LastCall.val = Null

C11_Witness ==
    /\ LastCall.op = "getItem" /\ LastCall.was
    /\ LastCall.status = "none" /\ LastCall.sent = RetryCount + 1
    /\ LastCall.kind = "return" /\ LastCall.val = Null

\* C12: GASStorage.setItem returns only the value true and only on an
\* envelope of status success; on an envelope of status error it throws an
\* error whose message is the text the server supplied; when the transport
\* fails it throws the error of the last request; it returns nothing falsy.
C12_SetItemTrueOrThrows ==
    LastCall.op = "setItem" =>
        /\ LastCall.kind \in {"return", "throw"}
        /\ LastCall.kind = "return" <=> LastCall.status = "success"
        /\ LastCall.kind = "return" => LastCall.val = True
        /\ LastCall.status = "error" =>
              /\ LastCall.text # <<>>
              /\ LastCall.error = Err("Error", LastCall.text)
        /\ (LastCall.status = "none" /\ LastCall.errs # <<>>) =>
              LastCall.error = Caught(LastCall.errs[Len(LastCall.errs)])

C12_Witness ==
    /\ LastCall.op = "setItem" /\ LastCall.status = "error"
    /\ LastCall.kind = "throw" /\ LastCall.error.message = TextSaveFailed
    /\ PrevCall.op = "init" /\ PrevCall.val = True

\* C13: when the value is null or undefined, or the backend is not
\* initialized, setItem throws and sends no HTTP request; the step in which
\* such a call begins and ends leaves the service and its table unchanged.
C13_RefusedSetItemHasNoRemoteEffect ==
    /\ [](LastCall.op = "setItem" /\ (~LastCall.was \/ LastCall.value.t \in {"null", "undefined"})
          => /\ LastCall.kind = "throw"
             /\ LastCall.sent = 0
             /\ LastCall.error.message \in {MsgNotInit, MsgInvalid})
    /\ [][(call.pc = "idle" /\ call'.pc = "idle" /\ budget'.calls # budget.calls
           /\ hist'[2].op = "setItem")
          => UNCHANGED serverVars]_vars

C13_Witness ==
    /\ LastCall.op = "setItem" /\ LastCall.was /\ LastCall.value = Null
    /\ LastCall.kind = "throw" /\ LastCall.sent = 0
    /\ LastCall.error.message = MsgInvalid
    /\ StoreA \in DOMAIN sheets
    /\ Len(sheets[StoreA]) = 2

----------------------------------------------------------------------------
(* C14 *)

\* The turns of the pass in which a setItem was made for key k.
Attempts(k) ==
    {j \in 1..Len(sync.turns) : sync.turns[j].key = k /\ sync.turns[j].did # "skipped"}

\* C14: within one pass of syncWithLocalStorage the keys are handled strictly
\* one after the other.  A setItem request is in flight only for the key at
\* hand, after the turns of all keys before it have ended.  Every key with the
\* prefix 'yousei:' that localStorage holds when the pass begins is handled
\* exactly once, in the order enumerated: one setItem is made for it, with
\* the value read at its turn, exactly when that value is not empty.  A
\* setItem that failed does not stop the pass: a pass that has returned has
\* handled every key it enumerated (it returns false, with no key
\* enumerated, only when the storage is not initialized).
C14_SequentialPass ==
    /\ (call.pc # "idle" /\ call.op = "setItem") =>
           /\ sync.pc = "await"
           /\ call.key = sync.localKeys[sync.i]
           /\ Len(sync.turns) = sync.i - 1
    /\ \A a, b \in 1..Len(sync.localKeys) : sync.localKeys[a] = sync.localKeys[b] => a = b
    /\ Len(sync.turns) <= Len(sync.localKeys)
    /\ \A j \in 1..Len(sync.turns) :
           LET turn == sync.turns[j] IN
           /\ turn.key = sync.localKeys[j]
           /\ turn.did # "skipped" <=> Truthy(turn.localData)
           /\ turn.did # "skipped" => turn.sentKey = turn.key /\ turn.sentValue = turn.localData
    /\ sync.pc = "done" =>
           \/ sync.result = True /\ Len(sync.turns) = Len(sync.localKeys)
           \/ sync.result = False /\ sync.localKeys = <<>>

\* A pass has returned in which the setItem of the first key failed and the
\* setItem of the second succeeded.
C14_Witness ==
    /\ sync.pc = "done"
    /\ sync.result = True
    /\ Len(sync.turns) = 2
    /\ sync.turns[1].did = "failed"
    /\ sync.turns[2].did = "saved"
    /\ sync.syncCount = 1

\* C14 as stated: every key with the prefix whose value was not empty when
\* the pass began has been attempted exactly once when the pass returns.
C14_AsStated ==
    (sync.pc = "done" /\ sync.result = True) =>
        \A k \in sync.atStart : Cardinality(Attempts(k)) = 1

----------------------------------------------------------------------------
(* C15 *)

\* The pass has returned, and no setItem it made has failed.
FullPass ==
    /\ sync.pc = "done"
    /\ sync.result = True
    /\ Len(sync.turns) = Len(sync.localKeys)
    /\ \A j \in 1..Len(sync.turns) : sync.turns[j].did # "failed"

\* C15: the persisted lastSync of GASConfig is advanced only after a
\* successful full sync pass: in every step that changes the lastSync of the
\* persisted config, a pass of syncWithLocalStorage has just returned in
\* which every enumerated key was pushed successfully.
C15_LastSyncOnlyAfterFullPass ==
    [][Field(stored'.doc, "lastSync") # Field(stored.doc, "lastSync")
           => conf.pc = "autosync" /\ FullPass]_vars

\* The same for the steps of performAutoSync alone, leaving enable aside.
C15_AutoSyncOnlyAfterFullPass ==
    [][(conf.pc = "autosync" /\ Field(stored'.doc, "lastSync") # Field(stored.doc, "lastSync"))
           => FullPass]_vars

----------------------------------------------------------------------------
(* C16 *)

\* C16: no duplicate timers: after any sequence of enable, disable,
\* startAutoSync, stopAutoSync and autoInit calls of GASConfig at most one
\* recurring auto-sync timer is active, and it is the one the manager holds
\* in statusCheckInterval.
C16_AtMostOneTimer ==
    /\ Cardinality(timers.active) <= 1
    /\ timers.active \subseteq {conf.statusCheckInterval}

\* A call has replaced the timer it found active by a new one.
C16_Witness ==
    /\ clast.op \in {"enable", "startAutoSync", "autoInit"}
    /\ clast.timers # {}
    /\ timers.active # {}
    /\ timers.active # clast.timers

----------------------------------------------------------------------------
(* C17 *)

\* C17: immediately after GASConfig.disable() returns, enabled is false in
\* the in-memory config and in the persisted one, no auto-sync timer is
\* active, and every other field of the config is as disable() found it.
C17_DisableFrame ==
    (conf.class = "GASConfig" /\ clast.op = "disable" /\ clast.kind = "return") =>
        /\ conf.config["enabled"] = False
        /\ stored.has
        /\ stored.doc["enabled"] = False
        /\ timers.active = {}
        /\ DOMAIN conf.config = DOMAIN clast.config \cup {"enabled"}
        /\ \A f \in DOMAIN clast.config \ {"enabled"} : conf.config[f] = clast.config[f]
        /\ stored.doc = Document(conf.config)

\* disable() has returned on an enabled config whose timer was active.
C17_Witness ==
    /\ conf.class = "GASConfig"
    /\ clast.op = "disable"
    /\ clast.kind = "return"
    /\ clast.timers # {}
    /\ Field(clast.config, "enabled") = True
    /\ timers.active = {}

----------------------------------------------------------------------------
(* C18 *)

\* C18: enable persists only on success.  GASConfig.enable and
\* GDriveConfig.enable call the init of their backend first.  When init
\* returned false or threw, enable returns false and leaves the in-memory
\* config, the persisted config and the timers as they were.  enable returns
\* true only when init returned true, and then the config in memory and the
\* persisted one hold the credentials with enabled = true, and a GASConfig
\* with autoSync set has scheduled a new timer.
C18_EnablePersistsOnlyOnSuccess ==
    (conf.class \in {"GASConfig", "GDriveConfig"} /\ clast.op = "enable") =>
        /\ clast.init \in {"true", "false", "throw"}
        /\ clast.init \in {"false", "throw"} =>
               /\ clast.val = False
               /\ conf.config = clast.config
               /\ stored = clast.entry
               /\ timers.active = clast.timers
        /\ clast.val = True <=> (clast.init = "true" /\ ~clast.full)
        /\ clast.val = True =>
               /\ conf.config["enabled"] = True
               /\ \A f \in DOMAIN clast.args : conf.config[f] = clast.args[f]
               /\ stored = Entry(Document(conf.config))
               /\ (conf.class = "GASConfig" /\ Truthy(Field(conf.config, "autoSync"))) =>
                      /\ timers.active = {conf.statusCheckInterval}
                      /\ timers.active \cap clast.timers = {}
        /\ clast.val = False => stored = clast.entry

\* enable has returned false after an init that failed, on a manager whose
\* persisted config was not enabled.
C18_Witness ==
    /\ conf.class \in {"GASConfig", "GDriveConfig"}
    /\ clast.op = "enable"
    /\ clast.init = "false"
    /\ clast.val = False
    /\ Field(conf.config, "enabled") = False
    /\ ~stored.has

----------------------------------------------------------------------------
(* C19 *)

\* C19: for BaseConfig, GASConfig and GDriveConfig the config is persisted on
\* every mutation and loaded merged over the defaults: after every
\* saveConfig, set, enable or disable that went through, the persisted
\* document equals the whole in-memory config; and a config loaded from a
\* persisted document that lacks some fields holds the default value of each
\* missing field.
C19_PersistedAndMergedOverDefaults ==
    /\ (/\ clast.op \in {"saveConfig", "enable", "disable"}
        /\ clast.kind = "return"
        /\ clast.op = "enable" /\ conf.class # "BaseConfig" => clast.val = True) =>
           /\ stored.has
           /\ stored.doc = conf.config
    /\ (clast.op = "new" /\ clast.entry.has) =>
           \A f \in DOMAIN DefaultsOf(conf.class) \ DOMAIN clast.entry.doc :
               Field(conf.config, f) = DefaultsOf(conf.class)[f]

\* The second half alone: the load.
C19_LoadedOverDefaults ==
    (clast.op = "new" /\ clast.entry.has) =>
        \A f \in DOMAIN DefaultsOf(conf.class) \ DOMAIN clast.entry.doc :
            Field(conf.config, f) = DefaultsOf(conf.class)[f]

\* The first half alone, for the writes to localStorage that did not throw.
C19_PersistedOnMutation ==
    (/\ clast.op \in {"saveConfig", "enable", "disable"}
     /\ clast.kind = "return"
     /\ ~clast.full
     /\ clast.op = "enable" /\ conf.class # "BaseConfig" => clast.val = True) =>
        /\ stored.has
        /\ stored.doc = Document(conf.config)

----------------------------------------------------------------------------
(* C20 *)

\* The date of a key of the form yousei:<store>:<YYYY-MM-DD>, as year, month
\* and day; <<>> for any other key.
DateOfKey(key) ==
    LET n == Len(key)
        d == SubSeq(key, n - 9, n)
        colons == {i \in 1..n : key[i] = ":"}
    IN IF /\ n >= Len(YouseiPrefix) + 11
          /\ StartsWith(key, YouseiPrefix)
          /\ Cardinality(colons) = 2
          /\ key[n - 10] = ":"
          /\ d[5] = "-" /\ d[8] = "-"
          /\ \A i \in {1, 2, 3, 4, 6, 7, 9, 10} : IsDigit(d[i])
       THEN <<1000 * DigitOf(d[1]) + 100 * DigitOf(d[2]) + 10 * DigitOf(d[3]) + DigitOf(d[4]),
              10 * DigitOf(d[6]) + DigitOf(d[7]),
              10 * DigitOf(d[9]) + DigitOf(d[10])>>
       ELSE <<>>

\* a is the same day as b or an earlier one.
NotAfter(a, b) ==
    \/ a[1] < b[1]
    \/ a[1] = b[1] /\ a[2] < b[2]
    \/ a[1] = b[1] /\ a[2] = b[2] /\ a[3] <= b[3]

C20_WitnessBounds ==
    /\ handlers[1].st = "done"
    /\ handlers[1].p.action = "getDateRange"
    /\ handlers[1].p.startDate = Jan05
    /\ handlers[1].p.endDate = Jan10
    /\ Len(handlers[1].resp.items) = 2

-----------------------------------------------------------------------------
(* C21: getPreviousYearData over a sheet of dated records *)

MaxPrevRequests == 4

Target0605 == <<"2", "0", "2", "4", "-", "0", "6", "-", "0", "5">>
TargetLeap == <<"2", "0", "2", "4", "-", "0", "2", "-", "2", "9">>

\* Days with a record: inside the window of seven days around 2023-06-05, just
\* outside it, and next to the day a year before a 29th of February.
PrevDays == {<<2023, 6, 3>>, <<2023, 6, 5>>, <<2023, 6, 6>>, <<2023, 6, 9>>, <<2023, 2, 28>>}

PrevRequests ==
    {Params("setItem", YouseiKey(StoreA, d), Str(ISODate(d)), StoreA, 0, <<>>) : d \in PrevDays}
    \cup {TargetParams(StoreA, t) : t \in {Target0605, TargetLeap, <<"x">>}}

ArrivePrev(p) ==
    /\ arrived < MaxPrevRequests
    /\ HandlerStart(1, p)
    /\ UNCHANGED <<clientVars, nonGasVars>>

NextPrev ==
    \/ \E p \in PrevRequests : ArrivePrev(p)
    \/ HandlerWrite(1) /\ UNCHANGED <<clientVars, nonGasVars>>
    \/ Reply(1)

SpecPrev == InitRange /\ [][NextPrev]_vars

\* The probes of an answered getPreviousYearData request that have a record in
\* the sheet of its store, as positions in the probe order.
ProbesWithRecord(p) ==
    LET dates == ProbeDates(PreviousYear(DateOf(p.targetDate)))
    IN {j \in 1..7 : FindRow(sheets[SheetNameOf(p.storeId)],
                             YouseiKey(p.storeId, dates[j])) > 0}

\* C21: getPreviousYearData(storeId, targetDate) answers with the value stored
\* under yousei:<storeId>:<d> for the first day d that has a record, in the
\* order P, P-1, P+1, P-2, P+2, P-3, P+3 where P is targetDate a year earlier,
\* and with not_found only when none of the seven days has a record.
C21_FirstProbeWithRecord ==
    \A h \in DOMAIN handlers :
        LET p == handlers[h].p
            resp == handlers[h].resp
        IN (/\ handlers[h].st = "done"
            /\ p.action = "getPreviousYearData"
            /\ DateOf(p.targetDate) # <<>>)
           => LET dates == ProbeDates(PreviousYear(DateOf(p.targetDate)))
                  hits == ProbesWithRecord(p)
              IN IF hits = {} THEN resp.status = "not_found"
                 ELSE LET j == CHOOSE x \in hits : \A y \in hits : x <= y
                          data == sheets[SheetNameOf(p.storeId)]
                      IN /\ resp.status = "success"
                         /\ resp.data = data[FindRow(data, YouseiKey(p.storeId, dates[j]))].value

\* What the handler does: every probe reads the status off the text output of
\* handleGetItem, finds none, and the answer is not_found whatever is stored.
C21_AlwaysNotFound ==
    \A h \in DOMAIN handlers :
        (/\ handlers[h].st = "done"
         /\ handlers[h].p.action = "getPreviousYearData"
         /\ DateOf(handlers[h].p.targetDate) # <<>>)
        => handlers[h].resp.status = "not_found"

\* The example of the claim: a record two days before the day a year earlier.
C21_Witness ==
    /\ handlers[1].st = "done"
    /\ handlers[1].p.action = "getPreviousYearData"
    /\ handlers[1].p.targetDate = Target0605
    /\ ProbesWithRecord(handlers[1].p) = {4}

-----------------------------------------------------------------------------
(* C22: createBackup, one request after the other *)

MaxBackupRequests == 4
MaxBackupClock == 3

BackupParams(storeId) == Params("createBackup", NoKey, Undefined, storeId, 0, <<>>)

StatusParams(storeId) == Params("getSyncStatus", NoKey, Undefined, storeId, 0, <<>>)

BackupRequests ==
    {Params("setItem", KeyA, v, StoreA, 0, <<>>) : v \in {ValX, ValY}}
    \cup {Params("setItem", KeyAB, ValX, StoreA, 0, <<>>),
          Params("removeItem", KeyA, Undefined, StoreA, 0, <<>>)}
    \cup {BackupParams(st) : st \in {StoreA, NoStore}}
    \cup {StatusParams(StoreA)}

ArriveBackup(p) ==
    /\ arrived < MaxBackupRequests
    /\ HandlerStart(1, p)
    /\ UNCHANGED <<clientVars, nonGasVars>>

\* Time passes, into the next day at the third instant.
TickBackup ==
    /\ clock < MaxBackupClock
    /\ clock' = clock + 1
    /\ UNCHANGED <<sheets, handlers, insOrder, arrived, clientVars, nonGasVars>>

NextBackup ==
    \/ \E p \in BackupRequests : ArriveBackup(p)
    \/ HandlerWrite(1) /\ UNCHANGED <<clientVars, nonGasVars>>
    \/ Reply(1)
    \/ TickBackup

SpecBackup == InitRange /\ [][NextBackup]_vars

\* The sheets that hold a backup of the store made on the day: the one of the
\* backup's name and a copy that was never renamed.
BackupTables(storeId, day) ==
    {n \in DOMAIN sheets : n \in {BackupName(storeId, day), CopyName(SheetNameOf(storeId))}}

\* The rows of a store's table; a store without a sheet has the header only.
TableOf(ss, name) == IF name \in DOMAIN ss THEN ss[name] ELSE <<HeaderRow>>

\* A createBackup request has been answered.
BackupAnswered(h) == handlers[h].st = "done" /\ handlers[h].p.action = "createBackup"

C22_OneBackupOfLatest ==
    \A h \in DOMAIN handlers :
        BackupAnswered(h) =>
            LET p == handlers[h].p
                name == SheetNameOf(p.storeId)
            IN /\ handlers[h].resp.status = "success"
               /\ \E day \in 1..DayOf(clock) :
                    /\ handlers[h].resp.data = Obj(BackupName(p.storeId, day))
                    /\ BackupTables(p.storeId, day) = {BackupName(p.storeId, day)}
                    /\ sheets[BackupName(p.storeId, day)] = sheets[name]

C22_StoreTableUnchanged ==
    \A h \in DOMAIN handlers :
        (handlers'[h].p.action = "createBackup" /\ handlers'[h] # handlers[h]
         /\ handlers'[h].st # "idle")
        => TableOf(sheets', SheetNameOf(handlers'[h].p.storeId))
               = TableOf(sheets, SheetNameOf(handlers'[h].p.storeId))

\* C22: createBackup replaces and does not duplicate: after one or more
\* createBackup requests for a store on one calendar day, made one after the
\* other, exactly one backup table named for that store and day exists, its
\* rows are the rows of the store's table at the latest of them, and no
\* createBackup step changes the store's own table.
C22_ReplaceNotDuplicate == []C22_OneBackupOfLatest /\ [][C22_StoreTableUnchanged]_vars

\* The second of two createBackup requests for the default store on the first
\* day has been answered: no other request leaves only these two sheets.
C22_Witness ==
    /\ BackupAnswered(1)
    /\ handlers[1].p.storeId = NoStore
    /\ arrived = 2
    /\ DayOf(clock) = 1
    /\ DOMAIN sheets = {DefaultStore, BackupName(NoStore, 1)}

\* A backup of a store with records, made after an earlier sheet of that name
\* may have been there.
C22_WitnessRows ==
    /\ BackupAnswered(1)
    /\ arrived = 4
    /\ StoreA \in DOMAIN sheets
    /\ Len(sheets[StoreA]) = 3
    /\ BackupName(StoreA, 2) \in DOMAIN sheets

-----------------------------------------------------------------------------
(* C23: getSyncStatus *)

\* The lastModified cells of the data rows that are not empty.
ModifiedTimes(data) == {data[i].lastModified : i \in 2..Len(data)} \ {0}

StatusAnswered(h) == handlers[h].st = "done" /\ handlers[h].p.action = "getSyncStatus"

\* C23: getSyncStatus reports itemCount as the number of data rows of the
\* store's table (the header excluded, 0 for an empty store) and lastSync as
\* the greatest lastModified over its rows (null for an empty store); with one
\* record written to an empty store, itemCount is 1 and lastSync is that
\* write's lastModified.
C23_StatusCountsRowsAndLatest ==
    \A h \in DOMAIN handlers :
        StatusAnswered(h) =>
            LET data == sheets[SheetNameOf(handlers[h].p.storeId)]
                status == getSyncStatus(TRUE, handlers[h].resp)
            IN /\ status.connected
               /\ status.itemCount = Len(data) - 1
               /\ status.lastSync \in ModifiedTimes(data) \cup {NoTime}
               /\ \A t \in ModifiedTimes(data) : status.lastSync >= t
               /\ Len(data) = 1 => status.itemCount = 0 /\ status.lastSync = NoTime
               /\ Len(data) = 2 =>
                    status.itemCount = 1 /\ status.lastSync = data[2].lastModified

\* The status of a store after a single setItem on it.
C23_Witness ==
    /\ StatusAnswered(1)
    /\ arrived = 2
    /\ Len(sheets[StoreA]) = 2
    /\ getSyncStatus(TRUE, handlers[1].resp).itemCount = 1

\* The status of a store whose two records were written at different instants.
C23_WitnessLatest ==
    /\ StatusAnswered(1)
    /\ Len(sheets[StoreA]) = 3
    /\ sheets[StoreA][2].lastModified = 2
    /\ sheets[StoreA][3].lastModified = 1
    /\ getSyncStatus(TRUE, handlers[1].resp).lastSync = 2

-----------------------------------------------------------------------------
(* C24: the router and its envelopes *)

MaxRouterRequests == 3

Actions ==
    {"ping", "setItem", "getItem", "removeItem", "getAllItems", "getDateRange",
     "getPreviousYearData", "createBackup", "getSyncStatus"}

\* Requests of every action, complete and lacking their parameters, of no
\* action and of an action the script does not know.
RouterRequests ==
    {[Params(a, k, v, StoreA, 0, <<>>) EXCEPT !.targetDate = t] :
        a \in Actions \cup {"", "bogus"}, k \in {NoKey, KeyA}, v \in {Undefined, ValX},
        t \in {<<>>, Target0605}}

ArriveRouter(p) ==
    /\ arrived < MaxRouterRequests
    /\ HandlerStart(1, p)
    /\ UNCHANGED <<clientVars, nonGasVars>>

ThrowsRouter(p) ==
    /\ arrived < MaxRouterRequests
    /\ HandlerThrows(1, p)
    /\ UNCHANGED <<clientVars, nonGasVars>>

PostRouter(body) ==
    /\ arrived < MaxRouterRequests
    /\ PostArrives(1, body)
    /\ UNCHANGED <<clientVars, nonGasVars>>

NextRouter ==
    \/ \E p \in RouterRequests : ArriveRouter(p)
    \/ \E p \in RouterRequests : ThrowsRouter(p)
    \/ \E body \in {BodyNotJson, BodyNull} : PostRouter(body)
    \/ HandlerWrite(1) /\ UNCHANGED <<clientVars, nonGasVars>>
    \/ Reply(1)

SpecRouter == InitRange /\ [][NextRouter]_vars

Statuses == {"success", "error", "not_found"}

\* An execution holds no envelope until it is done and one of the three kinds
\* from then on; without an action the envelope is the capability payload,
\* with an unknown action an error.
C24_EnvelopeOfExecution ==
    \A h \in DOMAIN handlers :
        /\ handlers[h].st \in {"idle", "read", "done"}
        /\ handlers[h].st # "done" => handlers[h].resp = NoResp
        /\ handlers[h].st = "done" =>
             /\ handlers[h].resp.status \in Statuses
             /\ (handlers[h].body = <<>> /\ handlers[h].p.action = "")
                  => handlers[h].resp = handleDefault
             /\ (handlers[h].body = <<>> /\ handlers[h].p.action \notin Actions \cup {""})
                  => /\ handlers[h].resp.status = "error"
                     /\ handlers[h].resp.error = TextUnknownAction
             /\ handlers[h].body # <<>> => handlers[h].resp.status = "error"

\* A request leaves the script only with its envelope.
C24_AnsweredWithEnvelope ==
    \A h \in DOMAIN handlers :
        (handlers[h].st # "idle" /\ handlers'[h].st = "idle")
        => handlers[h].st = "done" /\ handlers[h].resp.status \in Statuses

\* C24: the router answers a request without an action with a success
\* envelope carrying the capability payload and an unknown action with an
\* error envelope; every request, also one whose handler fails at its table
\* access and a POST whose body is not JSON, is answered with exactly one
\* envelope whose status is success, error or not_found, never a raw fault.
C24_AlwaysOneEnvelope == []C24_EnvelopeOfExecution /\ [][C24_AnsweredWithEnvelope]_vars

\* A POST whose body is not JSON has been answered.
C24_Witness ==
    /\ handlers[1].st = "done"
    /\ handlers[1].body = BodyNotJson
    /\ handlers[1].resp.status = "error"
    /\ handlers[1].resp.error = TextInvalidJson

\* A handler that failed at its table access has answered.
C24_WitnessThrows ==
    /\ handlers[1].st = "done"
    /\ handlers[1].p.action = "getSyncStatus"
    /\ handlers[1].resp.error = TextStatusFailed

\* An unknown action has been answered.
C24_WitnessUnknown ==
    /\ handlers[1].st = "done"
    /\ handlers[1].p.action = "bogus"
    /\ handlers[1].resp.error = TextUnknownAction

-----------------------------------------------------------------------------
(* C25: requests for several stores *)

MaxStoreRequests == 4

\* Store ids are short alphanumeric identifiers; a request without one is for
\* the store 'default'.
StoreIds == {StoreA, NoStore, DefaultStore}

StoreOf(storeId) == IF storeId = <<>> THEN DefaultStore ELSE storeId

\* The six actions of the claim.
StoreActions ==
    {"setItem", "removeItem", "getItem", "getAllItems", "getDateRange", "getSyncStatus"}

StoreRequests ==
    {Params(a, KeyA, ValX, st, 0, <<>>) : a \in StoreActions, st \in StoreIds}
    \cup {Params("setItem", KeyAB, ValY, StoreA, 0, <<>>), BackupParams(StoreA)}

ArriveStore(p) ==
    /\ arrived < MaxStoreRequests
    /\ HandlerStart(1, p)
    /\ UNCHANGED <<clientVars, nonGasVars>>

NextStores ==
    \/ \E p \in StoreRequests : ArriveStore(p)
    \/ HandlerWrite(1) /\ UNCHANGED <<clientVars, nonGasVars>>
    \/ Reply(1)

SpecStores == InitRange /\ [][NextStores]_vars

\* The keys an answered read returned.
KeysReturned(h) ==
    IF handlers[h].resp.status # "success" THEN {}
    ELSE IF handlers[h].p.action = "getItem" THEN {handlers[h].p.key}
    ELSE IF handlers[h].p.action \in {"getAllItems", "getDateRange"}
    THEN {handlers[h].resp.items[i].key : i \in 1..Len(handlers[h].resp.items)}
    ELSE {}

\* The keys written under a store and not removed since: setItem requests for
\* it that were answered with success, as the sheet of its name records them.
KeysWrittenUnder(store) == IF store \in DOMAIN sheets THEN RangeOf(KeysOfRows(sheets[store])) ELSE {}

\* A read under a store returns only keys held under that store, and the
\* status of a store counts its rows only.
C25_ReadsOwnKeys ==
    \A h \in DOMAIN handlers :
        (handlers[h].st = "done" /\ handlers[h].p.action \in StoreActions)
        => /\ KeysReturned(h) \subseteq KeysWrittenUnder(StoreOf(handlers[h].p.storeId))
           /\ (handlers[h].p.action = "getSyncStatus")
                => handlers[h].resp.data.sheetName = StoreOf(handlers[h].p.storeId)

\* A step of a request of the six actions leaves the sheets of all other
\* stores as they are, and a write of it is to the sheet of its store, of the
\* key of the request.
C25_TouchesOwnSheetOnly ==
    \A h \in DOMAIN handlers :
        (handlers'[h] # handlers[h] /\ handlers'[h].st # "idle"
         /\ handlers'[h].p.action \in StoreActions)
        => LET own == StoreOf(handlers'[h].p.storeId)
           IN /\ \A n \in (DOMAIN sheets \cup DOMAIN sheets') \ {own} :
                    n \in DOMAIN sheets /\ n \in DOMAIN sheets' /\ sheets'[n] = sheets[n]
              /\ (handlers'[h].st = "done" /\ handlers'[h].p.action = "setItem"
                  /\ handlers'[h].resp.status = "success")
                   => handlers'[h].p.key \in RangeOf(KeysOfRows(sheets'[own]))

\* C25: store isolation: every setItem, removeItem, getItem, getAllItems,
\* getDateRange and getSyncStatus request for a store reads and writes only
\* the sheet of that store, the rows of every other store's sheet are
\* unchanged by it, and a key written under one store is never returned by a
\* read under another.
C25_StoreIsolation == []C25_ReadsOwnKeys /\ [][C25_TouchesOwnSheetOnly]_vars

\* Key ab is held under store S only, and a listing of the default store has
\* returned key a alone.
C25_Witness ==
    /\ handlers[1].st = "done"
    /\ handlers[1].p.action = "getAllItems"
    /\ handlers[1].p.storeId = NoStore
    /\ KeysReturned(1) = {KeyA}
    /\ StoreA \in DOMAIN sheets
    /\ KeyAB \in RangeOf(KeysOfRows(sheets[StoreA]))

\* A read of key a under the default store, which does not hold it, while
\* store S does.
C25_WitnessNotFound ==
    /\ handlers[1].st = "done"
    /\ handlers[1].p.action = "getItem"
    /\ handlers[1].p.storeId = DefaultStore
    /\ handlers[1].resp.status = "not_found"
    /\ StoreA \in DOMAIN sheets
    /\ KeyA \in RangeOf(KeysOfRows(sheets[StoreA]))

-----------------------------------------------------------------------------
(* C26, C27: the cloud-file backend with failing cloud steps *)

MaxCloudCalls == 4

CloudKeys == {<<"a", ":", "b">>, <<"c">>}

InitCloud(stores) ==
    /\ InitService({1})
    /\ InitGas(0, 0)
    /\ InitDrive(MaxCloudCalls, stores)
    /\ retry = NoRetry
    /\ tmo = NoTimeout
    /\ InitNoPage

NextDrive ==
    \/ \E f \in {"none", "load", "folder"} : DriveInit(f)
    \/ \E k \in CloudKeys, v \in {ValX, ValObj}, f \in {"none", "auth", "find", "write"} :
          DriveSetItem(k, v, f)
    \/ \E k \in CloudKeys, f \in {"none", "auth", "find", "download"} : DriveGetItem(k, f)
    \/ \E k \in CloudKeys, f \in {"none", "auth", "find", "delete"} : DriveRemoveItem(k, f)

\* The local store holds nothing, or a value for one of the keys.
InitDriveFaults == InitCloud({<<>>} \cup {[x \in {k} |-> ValY] : k \in CloudKeys})

SpecDrive == InitDriveFaults /\ [][NextDrive]_vars

DataOps == {"setItem", "getItem", "removeItem"}

\* The last operation was applied to the local store and returned its result.
AppliedLocally ==
    /\ dlast.path = "local"
    /\ dlast.op = "setItem" => dlast.key \in DOMAIN local /\ local[dlast.key] = JSString(dlast.value)
    /\ dlast.op = "removeItem" => dlast.key \notin DOMAIN local
    /\ dlast.op = "getItem" => dlast.val = LocalGet(local, dlast.key)

\* C26: setItem, getItem and removeItem of the cloud-file backend never throw,
\* and whenever a cloud step fails (the backend is not initialized,
\* authentication fails, a file request throws) the operation is applied to
\* the local store instead and its result is returned.
C26_FallbackOnAnyCloudFailure ==
    dlast.op \in DataOps =>
        /\ dlast.kind = "return"
        /\ dlast.failed # "none" => AppliedLocally

\* What holds: the fallback on every failure but that of findFile's query.
C26_FallbackUnlessFind ==
    dlast.op \in DataOps =>
        /\ dlast.kind = "return"
        /\ dlast.failed \notin {"none", "find"} => AppliedLocally
        /\ dlast.failed = "find" => dlast.path = "cloud"

\* C27 as stated: setItem and removeItem return the same value whether the
\* cloud or the local fallback took the operation.
C27_AsStated ==
    (dlast.op \in {"setItem", "removeItem"} /\ dlast.path = "local") => dlast.val = True

\* C27: the value setItem and removeItem return tells the path: true after the
\* cloud steps, false after the local fallback.
C27_ReturnTellsPath ==
    dlast.op \in {"setItem", "removeItem"} =>
        /\ dlast.kind = "return"
        /\ dlast.val \in {True, False}
        /\ dlast.val = True <=> dlast.path = "cloud"
        /\ dlast.val = False <=> dlast.path = "local"

\* A setItem whose create request failed has saved to the local store.
C27_Witness ==
    /\ dlast.op = "setItem"
    /\ dlast.failed = "write"
    /\ dlast.path = "local"
    /\ dlast.val = False
    /\ dlast.key \in DOMAIN local

\* A removeItem that deleted the file has returned.
C27_WitnessCloud ==
    /\ dlast.op = "removeItem"
    /\ dlast.failed = "none"
    /\ dlast.hadFile
    /\ dlast.val = True

-----------------------------------------------------------------------------
(* C28: the cloud-file backend when every cloud step succeeds *)

CloudValues == {ValX, ValY, ValObj, Null}

\* The keys a:b and a_b share a file name.
NextCloud ==
    \/ DriveInit("none")
    \/ \E k \in DriveKeys, v \in CloudValues : DriveSetItem(k, v, "none")
    \/ \E k \in DriveKeys : DriveGetItem(k, "none")
    \/ \E k \in DriveKeys : DriveRemoveItem(k, "none")

InitCloudOnly == InitCloud({<<>>})

SpecCloud == InitCloudOnly /\ [][NextCloud]_vars

\* The last operation took the cloud path, after one on the same key that
\* did.
CloudAfterCloud(before, now) ==
    /\ dlast.after.op = before /\ dlast.after.path = "cloud"
    /\ dlast.op = now /\ dlast.path = "cloud"
    /\ dlast.key = dlast.after.key

\* C28: round trip on the cloud-file backend: when the cloud steps succeed,
\* setItem(k, v) followed by getItem(k) returns a value equal to v, and a
\* second setItem(k, v2) updates the existing file, so that exactly one file
\* of k's sanitized name exists, holding v2, which is what getItem(k) returns.
C28_CloudRoundTrip ==
    /\ CloudAfterCloud("setItem", "getItem") => dlast.val = dlast.after.value
    /\ CloudAfterCloud("setItem", "setItem") =>
          /\ Cardinality(Matches(files, sanitizeFileName(dlast.key))) = 1
          /\ \A m \in Matches(files, sanitizeFileName(dlast.key)) :
                files[m].content.value = dlast.value
    /\ (dlast.op = "getItem" /\ dlast.path = "cloud" /\ dlast.hadFile) =>
          \E m \in Matches(files, sanitizeFileName(dlast.key)) :
              dlast.val = files[m].content.value

\* A second setItem of the key, with another value, has updated the file.
C28_Witness ==
    /\ CloudAfterCloud("setItem", "setItem")
    /\ dlast.value # dlast.after.value
    /\ dlast.hadFile
    /\ Len(files) = 1

\* getItem has returned the object that the setItem before it saved.
C28_WitnessRoundTrip ==
    /\ CloudAfterCloud("setItem", "getItem")
    /\ dlast.val = ValObj

-----------------------------------------------------------------------------
(* C29: the timer of GASConfig firing *)

MaxTimerConfCalls == 4
MaxTimerFaults == 1

\* The page opens with the document of an enabled config in localStorage
\* under the manager's key, or without one.
InitTimer ==
    /\ InitService({1})
    /\ InitGas(MaxSyncCalls, MaxTimerFaults)
    /\ InitDrive(0, SyncStores)
    /\ retry = NoRetry
    /\ tmo = NoTimeout
    /\ sync = NoSync
    /\ conf = [NoConf EXCEPT !.class = "GASConfig", !.left = MaxTimerConfCalls]
    /\ stored \in {NoEntry,
                   Entry(Merge(GASDefaults, [enabled |-> True, webAppUrl |-> Str(UrlService),
                                             storeId |-> Str(StoreA)]))}
    /\ timers = NoTimers
    /\ date = 1
    /\ clast = NoConfCall
    /\ passes = <<>>

NextTimer ==
    \/ Construct
    \/ EnableStart(UrlService, StoreA, TRUE)
    \/ EnableFinish(FALSE)
    \/ StartAutoSync
    \/ \E by \in {0} \cup timers.active, order \in LocalKeyOrders, present \in BOOLEAN :
          performAutoSync(by, order, present)
    \/ \E full \in BOOLEAN : PerformFinish(full)
    \/ SyncNext
    \/ SyncResume
    \/ Deliver
    \/ FetchFault(HttpError)
    \/ Receive
    \/ HandlerWrite(1) /\ UNCHANGED <<clientVars, nonGasVars>>

SpecTimer == InitTimer /\ [][NextTimer]_vars

\* The last call of the manager was a run of the timer's callback.
TimerRan == clast.op = "performAutoSync" /\ clast.by # 0

\* A run of the callback has completed normally.
C29_CallbackCompletes == TimerRan => clast.kind = "return"

\* The steps with which a run of the callback starts its pass and completes
\* leave the timers as they are: the timer that fired, if the page has not
\* replaced it meanwhile, stays installed.
C29_TimerStays ==
    (\/ clast' # clast /\ clast'.op = "performAutoSync" /\ clast'.by # 0
     \/ conf'.by # conf.by)
    => timers' = timers

\* C29: the callback of the auto-sync timer never lets a failure escape: for
\* every outcome of a pass (the backend is disconnected, syncWithLocalStorage
\* returns false, a setItem throws, saving lastSync throws) the callback
\* completes without throwing and the timer stays installed.
C29_TimerCallbackNeverThrows == []C29_CallbackCompletes /\ [][C29_TimerStays]_vars

\* Saving lastSync threw after a pass of the timer.
C29_Witness ==
    /\ TimerRan
    /\ clast.full
    /\ clast.val = False
    /\ sync.pc = "done"

\* A setItem of the timer's pass failed.
C29_WitnessSetItemFails ==
    /\ TimerRan
    /\ sync.pc = "done"
    /\ \E i \in 1..Len(sync.turns) : sync.turns[i].did = "failed"

\* The timer fired with the backend disconnected.
C29_WitnessDisconnected ==
    /\ TimerRan
    /\ ~gas.initialized
    /\ clast.val = False

\* The timer fired with no backend object on the page: performAutoSync threw.
C29_WitnessCaught ==
    /\ TimerRan
    /\ clast.val = Undefined
    /\ clast.kind = "return"

\* performManualSync lets the same failure through.
C29_WitnessManualThrows ==
    /\ clast.op = "performAutoSync"
    /\ clast.by = 0
    /\ clast.kind = "throw"
    /\ Truthy(Field(clast.config, "enabled"))

-----------------------------------------------------------------------------
(* C30: sync passes started while another is in flight *)

MaxPasses == 2
MaxOverlapConfCalls == 4

\* A pass of syncWithLocalStorage begun by performAutoSync: by, the timer
\* whose callback began it, or 0 for performManualSync; localKeys and i as in
\* the pass; key and value, the setItem request it awaits.
NoPass ==
    [pc |-> "idle", by |-> 0, localKeys |-> <<>>, i |-> 0, key |-> NoKey,
     value |-> Undefined, syncCount |-> 0]

InFlight(ps) == {n \in DOMAIN ps : ps[n].pc \in {"loop", "await"}}

MayStartMutExclusive(c, g, ps) ==
    Truthy(Field(c.config, "enabled")) /\ g.initialized /\ InFlight(ps) = {}

\* What performAutoSync tests before it calls syncWithLocalStorage: the
\* config is enabled and the backend connected.  No record of a pass in
\* flight is kept or consulted.
MayStart(c, g, ps) == Truthy(Field(c.config, "enabled")) /\ g.initialized

\* A timer fires, or the page calls performManualSync: a pass begins and
\* collects the keys.
PassStart(n, by, order) ==
    /\ CanConf
    /\ conf.class = "GASConfig"
    /\ passes[n].pc = "idle"
    /\ \A m \in DOMAIN passes : m < n => passes[m].pc # "idle"
    /\ by = 0 \/ by \in timers.active
    /\ MayStart(conf, gas, passes)
    /\ passes' = [passes EXCEPT ![n] =
           [NoPass EXCEPT !.pc = "loop", !.by = by, !.localKeys = order, !.i = 1]]
    /\ conf' = Used(conf)
    /\ UNCHANGED <<sync, stored, timers, date, clast, serverVars, clientVars, driveVars,
                   retry, tmo>>

\* One iteration of the loop of a pass begins: a value that is not empty is
\* passed to setItem, whose request goes out.
PassNext(n) ==
    /\ passes[n].pc = "loop"
    /\ LET ps == passes[n]
       IN IF ps.i > Len(ps.localKeys)
          THEN passes' = [passes EXCEPT ![n].pc = "done"]
          ELSE LET key == ps.localKeys[ps.i]
                   localData == LocalGet(local, key)
               IN IF Truthy(localData)
                  THEN passes' = [passes EXCEPT ![n].pc = "await", ![n].key = key,
                                                ![n].value = localData]
                  ELSE passes' = [passes EXCEPT ![n].i = @ + 1]
    /\ UNCHANGED <<pageVars, serverVars, clientVars, driveVars, retry, tmo>>

\* The setItem a pass awaits ends, with success or with a failure the pass
\* logs.
PassSettle(n, ok) ==
    /\ passes[n].pc = "await"
    /\ passes' = [passes EXCEPT ![n].pc = "loop", ![n].i = @ + 1, ![n].key = NoKey,
                                ![n].value = Undefined,
                                ![n].syncCount = IF ok THEN @ + 1 ELSE @]
    /\ UNCHANGED <<pageVars, serverVars, clientVars, driveVars, retry, tmo>>

\* The pass has returned true: performAutoSync saves lastSync and returns.
PassFinish(n) ==
    /\ passes[n].pc = "done"
    /\ LET saved == Merged(conf, [lastSync |-> Stamp(date)])
       IN /\ conf' = saved
          /\ stored' = Persisted(saved, stored, FALSE)
          /\ date' = date + 1
          /\ clast' = [ConfCompleted("performAutoSync", EndedFor(passes[n].by, "return"), True,
                                     conf, stored, timers) EXCEPT !.by = passes[n].by]
    /\ passes' = [passes EXCEPT ![n] = NoPass]
    /\ UNCHANGED <<sync, timers, serverVars, clientVars, driveVars, retry, tmo>>

InitOverlap ==
    /\ InitService({1})
    /\ InitGas(MaxSyncCalls, 0)
    /\ InitDrive(0, SyncStores)
    /\ retry = NoRetry
    /\ tmo = NoTimeout
    /\ sync = NoSync
    /\ conf = [NoConf EXCEPT !.class = "GASConfig", !.left = MaxOverlapConfCalls]
    /\ stored = NoEntry
    /\ timers = NoTimers
    /\ date = 1
    /\ clast = NoConfCall
    /\ passes = [n \in 1..MaxPasses |-> NoPass]

NextOverlap ==
    \/ Construct
    \/ EnableStart(UrlService, StoreA, TRUE)
    \/ Deliver
    \/ Receive
    \/ EnableFinish(FALSE)
    \/ \E n \in DOMAIN passes, by \in {0} \cup timers.active, order \in LocalKeyOrders :
          PassStart(n, by, order)
    \/ \E n \in DOMAIN passes : PassNext(n)
    \/ \E n \in DOMAIN passes, ok \in BOOLEAN : PassSettle(n, ok)
    \/ \E n \in DOMAIN passes : PassFinish(n)

SpecOverlap == InitOverlap /\ [][NextOverlap]_vars

\* Two passes await a setItem request for the same key.
SameKeyOutstanding ==
    \E n, m \in DOMAIN passes :
        /\ n # m
        /\ passes[n].pc = "await" /\ passes[m].pc = "await"
        /\ passes[n].key = passes[m].key

\* C30: sync passes are not mutually exclusive: with a pass in flight, a timer
\* firing or performManualSync begins another one (nothing but the enabled
\* flag and the connection is tested), so that two passes are in flight at
\* once and two setItem requests for the same key can be outstanding.
C30_PassesNotExclusive ==
    (/\ InFlight(passes) # {}
     /\ \E n \in DOMAIN passes : passes[n].pc = "idle"
     /\ CanConf
     /\ Truthy(Field(conf.config, "enabled"))
     /\ gas.initialized)
    => ENABLED (\E n \in DOMAIN passes, by \in {0} \cup timers.active,
                   order \in LocalKeyOrders : PassStart(n, by, order))

\* A pass of the timer and a pass of performManualSync both await the setItem
\* of the same key.
C30_Witness ==
    \E n, m \in DOMAIN passes :
        /\ passes[n].pc = "await" /\ passes[m].pc = "await"
        /\ passes[n].by # 0 /\ passes[m].by = 0
        /\ passes[n].key = passes[m].key

\* Two ticks of the timer: both passes await the setItem of the same key.
C30_WitnessTwoTicks ==
    \E n, m \in DOMAIN passes :
        /\ n # m
        /\ passes[n].pc = "await" /\ passes[m].pc = "await"
        /\ passes[n].by # 0 /\ passes[m].by # 0
        /\ passes[n].key = passes[m].key

-----------------------------------------------------------------------------
(* C31: a setItem request and its retry both reach the service *)

MaxAttemptRequests == 3

\* setItem requests as GASStorage.setItem sends them: with a timestamp.
AttemptRequests ==
    {Params("setItem", k, v, StoreA, 1, <<>>) : k \in {KeyA, KeyAB}, v \in {ValX, ValY}}

InitAttempts ==
    /\ InitService({1, 2})
    /\ InitGas(0, 0)
    /\ InitDrive(0, {<<>>})
    /\ retry = NoRetry
    /\ tmo = NoTimeout
    /\ InitNoPage

\* The first attempt of a request reaches the service.
ArriveAttempt(p) ==
    /\ arrived < MaxAttemptRequests
    /\ handlers[2].st = "idle"
    /\ HandlerStart(1, p)
    /\ UNCHANGED <<clientVars, nonGasVars>>

\* makeRequest has timed out and sent the same data again: the retry reaches
\* the service while the first attempt runs, or after it has ended.
ArriveRetry ==
    /\ handlers[1].st \in {"read", "done"}
    /\ HandlerStart(2, handlers[1].p)
    /\ UNCHANGED <<clientVars, nonGasVars>>

\* Both executions have ended and their envelopes are returned.
ReplyAttempts ==
    /\ handlers[1].st = "done"
    /\ handlers[2].st \in {"idle", "done"}
    /\ handlers' = [h \in DOMAIN handlers |-> IdleHandler]
    /\ UNCHANGED <<sheets, clock, insOrder, arrived, clientVars, nonGasVars>>

NextAttempts ==
    \/ \E p \in AttemptRequests : ArriveAttempt(p)
    \/ ArriveRetry
    \/ \E h \in {1, 2} : HandlerWrite(h) /\ UNCHANGED <<clientVars, nonGasVars>>
    \/ ReplyAttempts
    \/ Tick /\ UNCHANGED <<clientVars, nonGasVars>>

SpecAttempts == InitAttempts /\ [][NextAttempts]_vars

\* The rows of the sheet of a store that hold key k.
RowsOf(ss, store, k) ==
    IF store \in DOMAIN ss
    THEN {i \in 2..Len(ss[store]) : ss[store][i].key = k}
    ELSE {}

\* The first attempt and the retry have both written.
BothLanded ==
    /\ handlers[1].st = "done"
    /\ handlers[2].st = "done"
    /\ handlers[1].p = handlers[2].p

\* C31: a retried write is safe: when the first attempt of setItem(k, v) and
\* its retry have both been executed by the service, in either order and with
\* their read and write steps interleaved, the sheet holds exactly one row for
\* k, and it holds v.
C31_RetriedWriteOneRow ==
    BothLanded =>
        LET p == handlers[1].p
            rows == RowsOf(sheets, StoreA, p.key)
        IN /\ Cardinality(rows) = 1
           /\ \A i \in rows : sheets[StoreA][i].value = p.value

\* The retry arrived after the first attempt had written (no interleaving of
\* the read and write steps): one row for k, holding v.
C31_RetryAfterWrite ==
    [][(/\ handlers[1].st = "done"
        /\ handlers[2].st = "idle"
        /\ handlers'[2].st = "read"
        /\ Cardinality(RowsOf(sheets, StoreA, handlers[1].p.key)) = 1)
       => /\ handlers'[2].rowIndex > 0
          /\ sheets' = sheets]_vars

C31_Witness ==
    /\ BothLanded
    /\ Cardinality(RowsOf(sheets, StoreA, handlers[1].p.key)) = 1

-----------------------------------------------------------------------------
(* C32: two clients write the same key at the same time *)

MaxWriterRequests == 4

WriterRequests ==
    {Params("setItem", k, v, StoreA, 1, <<>>) : k \in {KeyA, KeyAB}, v \in {ValX, ValY}}

\* A setItem request of one of the clients reaches the service, on either
\* execution slot.
ArriveWriter(h, p) ==
    /\ arrived < MaxWriterRequests
    /\ HandlerStart(h, p)
    /\ UNCHANGED <<clientVars, nonGasVars>>

NextWriters ==
    \/ \E h \in {1, 2}, p \in WriterRequests : ArriveWriter(h, p)
    \/ \E h \in {1, 2} : HandlerWrite(h) /\ UNCHANGED <<clientVars, nonGasVars>>
    \/ \E h \in {1, 2} : Reply(h)
    \/ Tick /\ UNCHANGED <<clientVars, nonGasVars>>

SpecWriters == InitAttempts /\ [][NextWriters]_vars

\* The write step of an execution that found the row of its key: that row
\* now holds the key and the value of the request, and every other row of the
\* sheet, and the number of rows, is as before.
C32_WriteOverwritesOwnRow ==
    \A h \in DOMAIN handlers :
        (/\ handlers[h].st = "read"
         /\ handlers'[h].st = "done"
         /\ handlers[h].p.action = "setItem"
         /\ handlers[h].rowIndex > 0)
        => LET p == handlers[h].p
               i == handlers[h].rowIndex
               before == sheets[StoreA]
               after == sheets'[StoreA]
           IN /\ Len(after) = Len(before)
              /\ before[i].key = p.key
              /\ after[i].key = p.key
              /\ after[i].value = p.value
              /\ \A j \in 1..Len(before) : j # i => after[j] = before[j]
              /\ DOMAIN sheets' = DOMAIN sheets

\* Both executions have ended: the first row of the key holds the value of
\* one of the two requests.
C32_OneOfTheTwoValues ==
    (/\ handlers[1].st = "done"
     /\ handlers[2].st = "done"
     /\ handlers[1].p.key = handlers[2].p.key)
    => LET data == sheets[StoreA]
           i == FindRow(data, handlers[1].p.key)
       IN /\ i > 0
          /\ data[i].value \in {handlers[1].p.value, handlers[2].p.value}

\* C32: last writer wins on the remote table: two setItem executions for the
\* same existing key with values v1 and v2, with their read-row-index and write
\* steps interleaved, each overwrite the row of the key with their own value
\* and change no other row, so that the row ends with v1 or v2, the value of
\* the execution that wrote last.
C32_LastWriterWins == []C32_OneOfTheTwoValues /\ [][C32_WriteOverwritesOwnRow]_vars

\* Both executions have read the row index of the same existing key, with
\* different values to write.
C32_WitnessBothRead ==
    /\ handlers[1].st = "read"
    /\ handlers[2].st = "read"
    /\ handlers[1].p.key = handlers[2].p.key
    /\ handlers[1].p.value # handlers[2].p.value
    /\ handlers[1].rowIndex > 0
    /\ handlers[2].rowIndex > 0

\* Both have written the row of the existing key; the row holds the value of
\* the second execution, and the sheet holds one row for the key.
C32_Witness ==
    /\ arrived >= 3
    /\ handlers[1].st = "done"
    /\ handlers[2].st = "done"
    /\ handlers[1].p.key = handlers[2].p.key
    /\ handlers[1].p.value # handlers[2].p.value
    /\ Cardinality(RowsOf(sheets, StoreA, handlers[1].p.key)) = 1
    /\ \A i \in RowsOf(sheets, StoreA, handlers[1].p.key) :
           sheets[StoreA][i].value = handlers[2].p.value

-----------------------------------------------------------------------------
(* C33: the order of authentication and file requests *)

FileCalls == {"find", "create", "update", "download", "delete"}

\* The requests a data operation issued, in order, given the token it began
\* with, whether a file of the name existed, and the step that failed:
\* nothing when the backend is not initialized; authenticate when no token is
\* cached; then, unless authentication failed, the query of findFile and the
\* request on the file it found (or the create request of setItem).
Issued(op, token, hadFile, failed) ==
    IF failed = "init" THEN <<>>
    ELSE (IF token THEN <<>> ELSE <<"authenticate">>)
         \o (IF failed = "auth" THEN <<>>
             ELSE <<"find">>
                  \o (IF failed = "find" \/ ~hadFile
                      THEN IF op = "setItem" THEN <<"create">> ELSE <<>>
                      ELSE IF op = "setItem" THEN <<"update">>
                      ELSE IF op = "getItem" THEN <<"download">>
                      ELSE <<"delete">>))

\* A data operation completes in this step.
DataOpCompletes == dcalls' < dcalls /\ dlast'.op \in DataOps

\* The data operation of this step issued file requests only with a token,
\* began with authenticate when it had none, and did not call authenticate
\* when it had one.
C33_AuthenticateFirst ==
    DataOpCompletes =>
        LET calls == Issued(dlast'.op, drive.accessToken, dlast'.hadFile, dlast'.failed)
        IN /\ (\E i \in 1..Len(calls) : calls[i] \in FileCalls) => drive'.accessToken
           /\ (drive.initialized /\ ~drive.accessToken) => calls[1] = "authenticate"
           /\ \A i \in 2..Len(calls) : calls[i] # "authenticate"
           /\ drive.accessToken => \A i \in 1..Len(calls) : calls[i] # "authenticate"
           /\ drive.accessToken => drive'.accessToken

\* An operation that took the cloud path had a token when it ended.
C33_CloudPathHasToken ==
    (dlast.op \in DataOps /\ dlast.path = "cloud") => drive.accessToken

\* C33: lazy authentication ordering in GDriveStorage: setItem, getItem and
\* removeItem issue no cloud file request (find, create, update, download,
\* delete) while accessToken is null; with no token the operation calls
\* authenticate first, and once a token is cached later operations do not
\* call authenticate again.
C33_LazyAuthentication == []C33_CloudPathHasToken /\ [][C33_AuthenticateFirst]_vars

\* A setItem authenticated and created the file; the getItem after it
\* downloaded the file with the cached token.
C33_Witness ==
    /\ dlast.op = "getItem" /\ dlast.path = "cloud" /\ dlast.hadFile /\ dlast.failed = "none"
    /\ dlast.after.op = "setItem" /\ dlast.after.path = "cloud"
    /\ drive.accessToken

\* Authentication failed: the operation fell back with no token and no file
\* request.
C33_WitnessAuthFails ==
    /\ dlast.op \in DataOps /\ dlast.failed = "auth" /\ dlast.path = "local"
    /\ ~drive.accessToken

-----------------------------------------------------------------------------
(* C34: init on an instance that is initialized already *)

\* C34: re-initialisation resets the flag: whenever GASStorage.init returns
\* false, isInitialized() is false afterwards, also when an earlier init on
\* the same instance had succeeded.
C34_FalseInitClearsFlag ==
    (LastCall.op = "init" /\ LastCall.val = False /\ call.pc = "idle") => ~gas.initialized

\* What init does: the flag is set by a successful ping and never cleared, so
\* an init that returns false leaves it as it found it.
C34_FalseInitKeepsFlag ==
    /\ (LastCall.op = "init" /\ LastCall.val = False /\ call.pc = "idle")
           => (gas.initialized <=> LastCall.was)
    /\ (LastCall.op = "init" /\ LastCall.val = True /\ call.pc = "idle") => gas.initialized

C34_FlagNeverCleared == [][gas.initialized => gas'.initialized]_vars

\* The instance is initialized and its webAppUrl is one whose ping failed.
C34_WitnessOtherUrl ==
    /\ LastCall.op = "init" /\ LastCall.val = False /\ call.pc = "idle"
    /\ gas.initialized
    /\ gas.webAppUrl # UrlService

-----------------------------------------------------------------------------
(* C35: the save button of the settings dialog, and the timer *)

MaxSaveConfCalls == 4

\* The click handler of the save button: with a URL and a store id entered it
\* saves autoSync and syncInterval, then awaits enable(webAppUrl, storeId).
\* full: the write to localStorage throws, and the handler's catch reports
\* it; enable is not called.
SaveClick(url, store, autoSync, syncInterval, full) ==
    /\ CanConf
    /\ conf.class = "GASConfig"
    /\ conf.pc = "idle"
    /\ call.pc = "idle"
    /\ url # UrlNone
    /\ store # NoStore
    /\ LET saved == Merged(conf, [autoSync |-> autoSync, syncInterval |-> syncInterval])
       IN IF full
          THEN /\ conf' = Used(saved)
               /\ clast' = [ConfCompleted("saveConfig", "throw", Undefined, conf, stored, timers)
                               EXCEPT !.full = TRUE]
               /\ UNCHANGED <<stored, gas, call, hist, savedKeys>>
          ELSE /\ init(url, store)
               /\ conf' = Used([saved EXCEPT !.pc = "enable",
                                   !.args = [webAppUrl |-> Str(url), storeId |-> Str(store)]])
               /\ stored' = Persisted(saved, stored, FALSE)
               /\ UNCHANGED clast
    /\ UNCHANGED <<budget, sync, timers, date, serverVars, driveVars, retry, tmo, passes>>

InitSave ==
    /\ InitService({1})
    /\ InitGas(0, MaxFaults)
    /\ InitDrive(0, {<<>>})
    /\ retry = NoRetry
    /\ tmo = NoTimeout
    /\ sync = NoSync
    /\ conf = [NoConf EXCEPT !.class = "GASConfig", !.left = MaxSaveConfCalls]
    /\ stored \in {NoEntry,
                   Entry(Merge(GASDefaults, [enabled |-> True, webAppUrl |-> Str(UrlService),
                                             storeId |-> Str(StoreA)]))}
    /\ timers = NoTimers
    /\ date = 1
    /\ clast = NoConfCall
    /\ passes = <<>>

NextSave ==
    \/ Construct
    \/ \E url \in {UrlService, UrlOther}, autoSync \in {True, False}, full \in BOOLEAN :
          SaveClick(url, StoreA, autoSync, Num(<<"6">>), full)
    \/ \E url \in {UrlService, UrlOther} : EnableStart(url, StoreA, TRUE)
    \/ EnableFinish(FALSE)
    \/ disable(FALSE)
    \/ AutoInitStart
    \/ AutoInitFinish
    \/ Deliver
    \/ DeliverOther
    \/ FetchFault(HttpError)
    \/ Receive

SpecSave == InitSave /\ [][NextSave]_vars

\* C35: scheduler/config consistency: in every state of GASConfig in which
\* no method of it is in progress, an active auto-sync timer implies that
\* config.enabled and config.autoSync are both true; in particular saving
\* autoSync = false and re-enabling leaves no timer running.
C35_TimerImpliesAutoSync ==
    (conf.pc = "idle" /\ timers.active # {})
    => /\ Truthy(Field(conf.config, "enabled"))
       /\ Truthy(Field(conf.config, "autoSync"))

\* What holds: a timer is installed only with both flags true, and one active
\* timer at most exists; disable stops it.
C35_InstalledWithBothFlags ==
    [][(timers'.active \ timers.active # {})
       => /\ Truthy(Field(conf'.config, "enabled"))
          /\ Truthy(Field(conf'.config, "autoSync"))]_vars

C35_DisableStopsTimer ==
    (clast.op = "disable" /\ conf.pc = "idle" /\ ~Truthy(Field(conf.config, "enabled")))
    => timers.active = {}

\* The save button with autoSync unchecked, on a manager whose timer runs:
\* enable has returned true and the timer still runs.
C35_WitnessTimerSurvives ==
    /\ clast.op = "enable" /\ clast.val = True
    /\ conf.pc = "idle"
    /\ Field(conf.config, "autoSync") = False
    /\ timers.active # {}

-----------------------------------------------------------------------------
(* C36: disable while a sync pass is in flight *)

NextQuiesce ==
    \/ Construct
    \/ EnableStart(UrlService, StoreA, TRUE)
    \/ EnableFinish(FALSE)
    \/ disable(FALSE)
    \/ \E by \in {0} \cup timers.active, order \in LocalKeyOrders :
          performAutoSync(by, order, TRUE)
    \/ PerformFinish(FALSE)
    \/ SyncNext
    \/ SyncResume
    \/ Deliver
    \/ FetchFault(HttpError)
    \/ Receive
    \/ HandlerWrite(1) /\ UNCHANGED <<clientVars, nonGasVars>>

SpecQuiesce == InitTimer /\ [][NextQuiesce]_vars

\* The config is not enabled: before the first enable, or since disable()
\* returned.
Disabled == conf.built /\ ~Truthy(Field(conf.config, "enabled"))

\* A pass hands a value to setItem in this step.
PassSendsSetItem == sync.pc = "loop" /\ sync'.pc = "await"

\* performAutoSync ends in this step.
PassEnds == conf.pc = "autosync" /\ conf'.pc = "idle"

\* C36: disable quiesces sync: once GASConfig.disable() has returned, no
\* setItem request is issued to the remote backend by a sync pass and the
\* persisted lastSync is not changed, including by a pass that was already in
\* flight when disable() was called.
C36_DisableQuiesces ==
    [][Disabled => /\ ~PassSendsSetItem
                   /\ PassEnds => stored' = stored]_vars

\* What holds: no pass begins while the config is not enabled, and no timer
\* is left to fire.
C36_NoPassBegins ==
    [][Disabled => ~(sync.pc \in {"idle", "done"} /\ sync'.pc = "loop")]_vars

C36_NoTimerLeft == Disabled => timers.active = {}

\* disable() returned during a pass, which then sent the setItem of its next
\* key.
C36_WitnessSendsAfterDisable ==
    /\ Disabled
    /\ conf.pc = "autosync"
    /\ sync.pc = "await" /\ call.op = "setItem"
    /\ clast.op = "disable"
    /\ Len(sync.turns) >= 1

\* The pass that was in flight has ended and saved lastSync to the disabled
\* config.
C36_WitnessLastSyncSaved ==
    /\ Disabled
    /\ clast.op = "performAutoSync" /\ clast.val = True
    /\ stored.has
    /\ stored.doc.enabled = False
    /\ stored.doc.lastSync # clast.entry.doc.lastSync

-----------------------------------------------------------------------------
(* C37: the backend's target and the saved config *)

\* No method of the manager or of the backend is in progress.
Quiet == conf.built /\ conf.pc = "idle" /\ call.pc = "idle"

\* C37: the backend target matches the persisted config: in every state in
\* which GASConfig.config.enabled is true (and no call is in progress, the
\* backend being initialized), the webAppUrl and storeId of the shared
\* gasStorage equal config.webAppUrl and config.storeId; a failed
\* enable(url2, ...) after a successful enable(url1, ...) does not redirect
\* later requests to url2.
C37_BackendMatchesConfig ==
    (Quiet /\ Truthy(Field(conf.config, "enabled")) /\ gas.initialized)
    => /\ Str(gas.webAppUrl) = Field(conf.config, "webAppUrl")
       /\ Str(gas.storeId) = Field(conf.config, "storeId")

\* What holds: right after an enable that returned true the two agree.
C37_AgreeAfterSuccessfulEnable ==
    (Quiet /\ clast.op = "enable" /\ clast.val = True)
    => /\ Str(gas.webAppUrl) = Field(conf.config, "webAppUrl")
       /\ Str(gas.storeId) = Field(conf.config, "storeId")
       /\ gas.initialized

\* enable(url2) has returned false after a successful enable(url1): the
\* config names url1, the initialized backend sends to url2.
C37_WitnessRedirected ==
    /\ Quiet
    /\ clast.op = "enable" /\ clast.val = False
    /\ Truthy(Field(conf.config, "enabled"))
    /\ gas.initialized
    /\ Field(conf.config, "webAppUrl") = Str(UrlService)
    /\ gas.webAppUrl = UrlOther

-----------------------------------------------------------------------------
(* C38: records pushed by the client, as the date queries see them *)

MaxVisibleCalls == 4

\* Local keys of the ledger: yousei:<storeId>:<date>.
KeyJan05 == DateKey(StoreA, Jan05)
KeyPrev == YouseiKey(StoreA, <<2023, 6, 5>>)

VisibleRanges == {<<Jan01, Jan31>>, <<Jan05, Jan05>>, <<Jan10, Jan31>>}

InitVisible ==
    /\ InitService({1})
    /\ InitGas(MaxVisibleCalls, 0)
    /\ InitDrive(0, {[k \in {KeyJan05, KeyPrev} |-> ValX]})
    /\ retry = NoRetry
    /\ tmo = NoTimeout
    /\ InitNoPage

NextVisible ==
    \/ GasInit(UrlService, StoreA)
    \/ \E k \in {KeyJan05, KeyPrev} : setItem(k, ValX)
    \/ \E order \in LocalKeyOrders : SyncStart(order)
    \/ SyncNext
    \/ SyncResume
    \/ \E r \in VisibleRanges : getDateRange(r[1], r[2])
    \/ getPreviousYearData(Target0605)
    \/ Deliver
    \/ Receive
    \/ HandlerWrite(1) /\ UNCHANGED <<clientVars, nonGasVars>>

SpecVisible == InitVisible /\ [][NextVisible]_vars

\* The last call was getDateRange over a range that holds the day.
RangeCallCovering(day) ==
    /\ LastCall.op = "getDateRange"
    /\ NotAfter(DateOf(LastCall.key), day)
    /\ NotAfter(day, DateOf(LastCall.value.s))

\* C38: client writes are visible to date queries: a record pushed through
\* GASStorage.setItem or syncWithLocalStorage under the local key
\* yousei:<storeId>:<date> is returned by getDateRange(start, end) for every
\* range with start <= date <= end, and is found by getPreviousYearData for
\* the date one year later.
C38_ClientWritesVisible ==
    /\ (RangeCallCovering(<<2024, 1, 5>>) /\ <<StoreA, KeyJan05>> \in savedKeys)
          => \E i \in 1..Len(LastCall.items) :
                /\ LastCall.items[i].date = Jan05
                /\ LastCall.items[i].value = ValX
    /\ (LastCall.op = "getPreviousYearData" /\ <<StoreA, KeyPrev>> \in savedKeys)
          => LastCall.val = ValX

\* What the client gets: the rows it wrote carry the key <storeId>.<key>,
\* which no date query recognises.
C38_DateQueriesFindNothing ==
    /\ LastCall.op = "getDateRange" => LastCall.items = <<>>
    /\ LastCall.op = "getPreviousYearData" => LastCall.val = Null
    /\ \A n \in DOMAIN sheets : \A i \in 2..Len(sheets[n]) :
          ~StartsWith(sheets[n][i].key, YouseiPrefix)

\* The record of the day was pushed by a sync pass, and a getDateRange over
\* the month was answered with success.
C38_WitnessRange ==
    /\ RangeCallCovering(<<2024, 1, 5>>)
    /\ LastCall.status = "success"
    /\ <<StoreA, KeyJan05>> \in savedKeys
    /\ sync.pc = "done"

C38_WitnessPrev ==
    /\ LastCall.op = "getPreviousYearData"
    /\ LastCall.status = "not_found"
    /\ <<StoreA, KeyPrev>> \in savedKeys

-----------------------------------------------------------------------------
(* C39: keys that share a file name *)

\* What getItem(k) returns by the cloud path from the folder: null without a
\* file of the name, else the value in the file the query returns first,
\* which is any of the files of the name.
CloudReads(fs, k) ==
    IF Matches(fs, sanitizeFileName(k)) = {} THEN {Null}
    ELSE {fs[m].content.value : m \in Matches(fs, sanitizeFileName(k))}

\* C39: cloud keys do not collide: for every two distinct keys k1 # k2,
\* GDriveStorage.setItem(k1, v) leaves the value returned by getItem(k2)
\* unchanged, i.e. sanitizeFileName maps distinct keys to distinct file names.
C39_SetItemLeavesOtherKeys ==
    [][(dcalls' < dcalls /\ dlast'.op = "setItem")
       => \A k2 \in DriveKeys \ {dlast'.key} : CloudReads(files', k2) = CloudReads(files, k2)]_vars

\* What holds: setItem leaves every key with another file name as it was.
C39_OtherFileNamesUntouched ==
    [][(dcalls' < dcalls /\ dlast'.op = "setItem")
       => \A k2 \in DriveKeys :
             sanitizeFileName(k2) # sanitizeFileName(dlast'.key)
                => CloudReads(files', k2) = CloudReads(files, k2)]_vars

\* getItem of one key returned the value that setItem wrote under another.
C39_WitnessCollision ==
    /\ dlast.op = "getItem" /\ dlast.path = "cloud"
    /\ dlast.after.op = "setItem" /\ dlast.after.path = "cloud"
    /\ dlast.key # dlast.after.key
    /\ dlast.val = dlast.after.value
    /\ dlast.val # Null

-----------------------------------------------------------------------------
(* C40: a write and the read after it, across the fallback *)

\* The last call was getItem(k), straight after a setItem(k, v).
ReadAfterWrite ==
    /\ dlast.op = "getItem"
    /\ dlast.after.op = "setItem"
    /\ dlast.key = dlast.after.key

\* C40: read-your-write across the cloud fallback: after setItem(k, v) has
\* completed by either path (cloud or local fallback), the next getItem(k)
\* returns v whichever path the read takes.
C40_ReadYourWrite == ReadAfterWrite => dlast.val = dlast.after.value

\* What holds: a read by the path of the write returns the value written (as
\* localStorage keeps it, a string, on the local path), unless the query of
\* findFile failed or the folder holds two files of the name.
C40_SamePathReadsWrite ==
    (/\ ReadAfterWrite
     /\ dlast.path = dlast.after.path
     /\ dlast.failed # "find"
     /\ Cardinality(Matches(files, sanitizeFileName(dlast.key))) <= 1)
    => dlast.val = IF dlast.path = "cloud" THEN dlast.after.value
                   ELSE JSString(dlast.after.value)

\* The write fell back to localStorage, the read reached the cloud and
\* returned null.
C40_WitnessLostWrite ==
    /\ ReadAfterWrite
    /\ dlast.after.path = "local"
    /\ dlast.path = "cloud" /\ dlast.failed = "none"
    /\ dlast.val = Null

\* The write of a new value fell back, the read returned the older value of
\* the cloud file.
C40_WitnessOlderValue ==
    /\ ReadAfterWrite
    /\ dlast.after.path = "local"
    /\ dlast.path = "cloud" /\ dlast.failed = "none"
    /\ dlast.val \notin {Null, dlast.after.value}

====
